---- MODULE Spec2Model ----
(***************************************************************************)
(* Portfolio aggregation and valuation engine (lib/data-processor and the  *)
(* tabs that re-value open deposits).                                      *)
(*                                                                         *)
(* Representation.                                                         *)
(*  - A string that the code splits or prefixes (Symbol, Account, group    *)
(*    key) is a sequence of tokens, so that `${symbol}-${account}` and     *)
(*    key.split("-") are computed, not assumed to invert each other.       *)
(*  - Quantities are integers counted in units of 1e-4 (QTY_EPSILON = 1    *)
(*    unit); amounts are integers in units of 1e-4 currency; prices are    *)
(*    integers in currency units.  Floating-point rounding is not modelled.*)
(*  - A numeric CSV cell is <<n>> or <<>> (blank / not a number), read     *)
(*    with Num, the model of `Number(x) || 0`.                             *)
(*  - The result of a JavaScript division is a record: kind "fin" with     *)
(*    numerator n and denominator d, or kind "NaN" / "Infinity".           *)
(*  - Dates are day numbers (canonical YYYY-MM-DD strings order the same   *)
(*    way as strings and as Date objects).                                 *)
(***************************************************************************)
EXTENDS Integers, Sequences, FiniteSets, TLC

VARIABLES
  transactions,     \* parsed transaction rows (input order)
  quotes,           \* parsed quote rows (input order)
  selectedAccount,  \* the account the caller asks for ("all" or a name)
  pc,               \* position of the pipeline
  latestQuotes,     \* Map symbol -> Quote
  uniqueAccounts,   \* sorted account names still to be processed
  accountsData,     \* per-account results
  portfolio,        \* the returned PortfolioData (holdings, metrics)
  views,            \* what the active tab derives from the PortfolioData
  replay,           \* state of the time-series replay of one account
  replayDates,      \* sorted dates the replay has still to process
  texts,            \* which of the three input texts are non-empty
  log,              \* error reports handed to the log callback
  dashboard         \* the dashboard's rawData and displayed portfolioData

vars == <<transactions, quotes, selectedAccount, pc, latestQuotes,
          uniqueAccounts, accountsData, portfolio, views, replay, replayDates,
          texts, log, dashboard>>

----------------------------------------------------------------------------
(* Bounds of the model *)

MaxTxns == 2

MaxSeriesTxns == 3

(* Program constants *)

QTY_EPSILON == 1

LAST_RESORT_PRICE == 1

(* the literal added to measures 4.8 and 4.9 *)
HARDCODED_RETURN == 177167

----------------------------------------------------------------------------
(* Generic helpers *)

Abs(x) == IF x < 0 THEN -x ELSE x

Sign(x) == IF x < 0 THEN -1 ELSE IF x > 0 THEN 1 ELSE 0

Num(cell) == IF Len(cell) = 0 THEN 0 ELSE cell[1]

SumOver(s, F(_)) ==
  LET RECURSIVE go(_)
      go(i) == IF i > Len(s) THEN 0 ELSE F(s[i]) + go(i + 1)
  IN go(1)

FilterSeq(s, P(_)) ==
  LET RECURSIVE go(_)
      go(i) == IF i > Len(s) THEN <<>>
               ELSE IF P(s[i]) THEN <<s[i]>> \o go(i + 1)
               ELSE go(i + 1)
  IN go(1)

RECURSIVE FlatSeq(_)
FlatSeq(ss) == IF Len(ss) = 0 THEN <<>> ELSE ss[1] \o FlatSeq(Tail(ss))

BoundedSeq(S, n) == UNION {[1..k -> S] : k \in 0..n}

Range(s) == {s[i] : i \in 1..Len(s)}

(* Map.set on a map kept as a function *)
MapSet(m, k, v) == [x \in (DOMAIN m) \cup {k} |-> IF x = k THEN v ELSE m[x]]

MapDelete(m, k) == [x \in (DOMAIN m) \ {k} |-> m[x]]

EmptyMap == [x \in {} |-> 0]

(* String.prototype.split(sep) on a token sequence *)
RECURSIVE SplitFrom(_, _, _, _)
SplitFrom(s, sep, i, cur) ==
  IF i > Len(s) THEN <<cur>>
  ELSE IF s[i] = sep THEN <<cur>> \o SplitFrom(s, sep, i + 1, <<>>)
  ELSE SplitFrom(s, sep, i + 1, Append(cur, s[i]))

Split(s, sep) == SplitFrom(s, sep, 1, <<>>)

(* String.prototype.trim(): a " " token is white space *)
RECURSIVE TrimLeft(_)
TrimLeft(s) == IF Len(s) > 0 /\ s[1] = " " THEN TrimLeft(Tail(s)) ELSE s

RECURSIVE TrimRight(_)
TrimRight(s) ==
  IF Len(s) > 0 /\ s[Len(s)] = " " THEN TrimRight(SubSeq(s, 1, Len(s) - 1)) ELSE s

Trim(s) == TrimRight(TrimLeft(s))

(* JavaScript number division and the operations applied to its result *)
Fin(a, b) == [kind |-> "fin", n |-> a, d |-> b]

JsZero == Fin(0, 1)

JsDiv(a, b) ==
  IF b # 0 THEN Fin(a, b)
  ELSE IF a = 0 THEN [kind |-> "NaN", n |-> 0, d |-> 0]
  ELSE [kind |-> "Infinity", n |-> Sign(a), d |-> 0]

JsTimes(r, k) == IF r.kind = "fin" THEN Fin(r.n * k, r.d) ELSE r

JsAbs(r) ==
  IF r.kind = "fin" THEN Fin(Abs(r.n), Abs(r.d))
  ELSE IF r.kind = "Infinity" THEN [r EXCEPT !.n = 1]
  ELSE r

IsFinite(r) == r.kind = "fin"

IsZero(r) == r.kind = "fin" /\ r.n = 0

----------------------------------------------------------------------------
(* Rows *)

Txn(sym, acct, date, status, qty, cost, realized, cash, netPrice, db) ==
  [Symbol |-> sym, Account |-> acct, Date |-> date, StatusTr |-> status,
   QtyChange |-> qty, CostChange |-> cost, Realized3 |-> realized,
   CashImpact |-> cash, NetPrice |-> netPrice, Db |-> db]

Quote(sym, date, close) == [Symbol |-> sym, Date |-> date, Close |-> close]

QtyOf(t) == Num(t.QtyChange)

CostOf(t) == Num(t.CostChange)

RealizedOf(t) == Num(t.Realized3)

DebitOf(t) == Num(t.Db)

CashOf(t) == Num(t.CashImpact)

----------------------------------------------------------------------------
(* Reference indexers (processPortfolioData) *)

(* latestQuotes: !existing || new Date(quote.Date) > new Date(existing.Date);
   a blank Date cell is parsed to null and new Date(null) is the epoch, the
   earliest of all dates, as day 0 is *)
LatestQuoteStepLastWins(m, q) ==
  IF q.Symbol \notin DOMAIN m \/ q.Date >= m[q.Symbol].Date
  THEN MapSet(m, q.Symbol, q)
  ELSE m

LatestQuoteStep(m, q) ==
  IF q.Symbol \notin DOMAIN m \/ q.Date > m[q.Symbol].Date
  THEN MapSet(m, q.Symbol, q)
  ELSE m

RECURSIVE LatestQuotesFrom(_, _, _)
LatestQuotesFrom(qs, i, m) ==
  IF i > Len(qs) THEN m ELSE LatestQuotesFrom(qs, i + 1, LatestQuoteStep(m, qs[i]))

BuildLatestQuotes(qs) == LatestQuotesFrom(qs, 1, EmptyMap)

(* symbolMap.get(symbol) || { Symbol, Sh_name_eng: symbol, Sector: "Unknown" } *)
SymbolRows ==
  [s \in {<<"X">>, <<"Y">>} |->
     [Symbol |-> s, Sh_name_eng |-> s \o <<" ", "Co">>, Sector |-> "Banks"]]

SymbolInfo(symbol) ==
  IF symbol \in DOMAIN SymbolRows THEN SymbolRows[symbol]
  ELSE [Symbol |-> symbol, Sh_name_eng |-> symbol, Sector |-> "Unknown"]

(* account = t.Account?.trim(); rows of "", "all", "All Accounts" are skipped *)
AccountOfRow(t) == Trim(t.Account)

IsAccountRow(t) ==
  /\ AccountOfRow(t) # <<>>
  /\ AccountOfRow(t) # <<"all">>
  /\ AccountOfRow(t) # <<"All Accounts">>

AccountTransactionsOfAll(txns, account) ==
  LET Mine(t) == IsAccountRow(t) IN FilterSeq(txns, Mine)

AccountTransactions(txns, account) ==
  LET Mine(t) == IsAccountRow(t) /\ AccountOfRow(t) = account
  IN FilterSeq(txns, Mine)

(* Array.from(keys).sort(): the model's account names are single tokens or
   start with a distinct token, so they order by their first token *)
AccountRank(a) ==
  CASE a[1] = "A" -> 1
    [] a[1] = "B" -> 2
    [] OTHER -> 3

RECURSIVE SortAccounts(_)
SortAccounts(S) ==
  IF S = {} THEN <<>>
  ELSE LET a == CHOOSE x \in S : \A y \in S : AccountRank(x) <= AccountRank(y)
       IN <<a>> \o SortAccounts(S \ {a})

UniqueAccounts(txns) ==
  SortAccounts({AccountOfRow(txns[i]) : i \in {j \in 1..Len(txns) : IsAccountRow(txns[j])}})

----------------------------------------------------------------------------
(* Status classification (processPortfolioData, transactionsByStatus) *)

IsOpenStatusOrDividend(status) == status \in {"Open Items", "Dividend"}

IsOpenStatus(status) == status = "Open Items"

IsClosedStatus(status) ==
  status \in {"YTD Clear", "PYD Clear", "Cleared-RE", "Cleared", "Clered -RE",
              "Time Deposit"}

OpenTransactions(txns) ==
  LET P(t) == IsOpenStatus(t.StatusTr) IN FilterSeq(txns, P)

ClosedTransactions(txns) ==
  LET P(t) == ~IsOpenStatus(t.StatusTr) /\ IsClosedStatus(t.StatusTr)
  IN FilterSeq(txns, P)

TimeDepositTransactions(txns) ==
  LET P(t) == t.StatusTr = "Time Deposit" IN FilterSeq(txns, P)

----------------------------------------------------------------------------
(* Grouping into a Map<string, Transaction[]> kept in insertion order *)

GroupAdd(groups, key, t) ==
  IF \E i \in 1..Len(groups) : groups[i].key = key
  THEN [i \in 1..Len(groups) |->
          IF groups[i].key = key
          THEN [groups[i] EXCEPT !.txns = Append(@, t)]
          ELSE groups[i]]
  ELSE Append(groups, [key |-> key, txns |-> <<t>>])

GroupBy(txns, KeyOf(_)) ==
  LET RECURSIVE go(_, _)
      go(i, groups) ==
        IF i > Len(txns) THEN groups
        ELSE go(i + 1, GroupAdd(groups, KeyOf(txns[i]), txns[i]))
  IN go(1, <<>>)

AccountOrUnknown(t) == IF t.Account = <<>> THEN <<"Unknown">> ELSE t.Account

(* processHoldings: const key = `${symbol}-${account}` *)
HoldingsKey(t) == t.Symbol \o <<"-">> \o AccountOrUnknown(t)

(* OpenDeposits / Summary: const key = `${symbol}|${account}` *)
DepositsKey(t) == t.Symbol \o <<"|">> \o AccountOrUnknown(t)

(* transactions.sort((a, b) => date(a) - date(b)): a stable sort *)
RECURSIVE InsertByDate(_, _)
InsertByDate(sorted, t) ==
  IF Len(sorted) = 0 THEN <<t>>
  ELSE IF sorted[Len(sorted)].Date <= t.Date THEN Append(sorted, t)
  ELSE Append(InsertByDate(SubSeq(sorted, 1, Len(sorted) - 1), t), sorted[Len(sorted)])

RECURSIVE SortByDateFrom(_, _, _)
SortByDateFrom(s, i, acc) ==
  IF i > Len(s) THEN acc ELSE SortByDateFrom(s, i + 1, InsertByDate(acc, s[i]))

SortByDate(s) == SortByDateFrom(s, 1, <<>>)

----------------------------------------------------------------------------
(* Holding Valuator: processHoldings *)

(* const cashBalance = transactions.reduce(... non-Time Deposit Cash Impact) *)
HoldingsCashBalance(txns) ==
  LET Cash(t) == IF t.StatusTr # "Time Deposit" THEN CashOf(t) ELSE 0
  IN SumOver(txns, Cash)

(* openCost = costChangeSum + cumulativeRealizedReturn *)
OpenCostRawSum(costChangeSum, cumulativeRealizedReturn) == costChangeSum

OpenCost(costChangeSum, cumulativeRealizedReturn) ==
  costChangeSum + cumulativeRealizedReturn

(* const quote = latestQuotes.get(symbol); const price = quote ? quote.Close : 0 *)
HoldingPrice(lq, symbol) == IF symbol \in DOMAIN lq THEN lq[symbol].Close ELSE 0

(* includeZeroQuantity ? 0 : value - openCost *)
UnrealizedGainIgnoringCost(includeZeroQuantity, value, openCost) ==
  IF includeZeroQuantity THEN 0 ELSE value

UnrealizedGainOfClosedToo(includeZeroQuantity, value, openCost) == value - openCost

HoldingUnrealizedGain(includeZeroQuantity, value, openCost) ==
  IF includeZeroQuantity THEN 0 ELSE value - openCost

(* absDebit !== 0 ? (x / absDebit) * 100 : 0 *)
PctOfDebit(x, absDebit) ==
  IF absDebit # 0 THEN JsTimes(JsDiv(x, absDebit), 100) ELSE JsZero

(* statusType "Cleared-RE" / "Clered -RE" is shown as "Cleared" *)
DisplayStatus(statusType) ==
  IF statusType = "Cleared-RE" \/ statusType = "Clered -RE" THEN "Cleared"
  ELSE statusType

(* includeZeroQuantity || Math.abs(quantity) > 0.0001 *)
KeepsHoldingAtEpsilon(includeZeroQuantity, quantity) ==
  includeZeroQuantity \/ Abs(quantity) >= QTY_EPSILON

KeepsHolding(includeZeroQuantity, quantity) ==
  includeZeroQuantity \/ Abs(quantity) > QTY_EPSILON

(* One (symbol, account) group reduced and valued.  statusType "" stands for
   an omitted argument: both are falsy in `displayStatus || ...`. *)
GroupHolding(group, lq, statusType, includeZeroQuantity, cashBalance) ==
  LET parts == Split(group.key, "-")
      symbol == parts[1]
      account == parts[2]
      txns == SortByDate(group.txns)
      quantity == SumOver(txns, QtyOf)
      totalDebit == SumOver(txns, DebitOf)
      costChangeSum == SumOver(txns, CostOf)
      cumulativeRealizedReturn == SumOver(txns, RealizedOf)
      openCost == OpenCost(costChangeSum, cumulativeRealizedReturn)
      symbolInfo == SymbolInfo(symbol)
      price == HoldingPrice(lq, symbol)
      value == quantity * price
      unrealizedGain == HoldingUnrealizedGain(includeZeroQuantity, value, openCost)
      totalReturn == IF includeZeroQuantity THEN cumulativeRealizedReturn
                     ELSE cumulativeRealizedReturn + unrealizedGain
      absDebit == Abs(totalDebit)
      displayStatus == DisplayStatus(statusType)
  IN [Symbol |-> symbol,
      Account |-> account,
      Name |-> symbolInfo.Sh_name_eng,
      Sector |-> symbolInfo.Sector,
      Status |-> IF displayStatus # "" THEN displayStatus ELSE txns[1].StatusTr,
      Quantity |-> quantity,
      Cost |-> openCost,
      TotalCost |-> costChangeSum,
      AvgCost |-> IF Abs(quantity) > QTY_EPSILON
                  THEN JsAbs(JsDiv(openCost, quantity)) ELSE JsZero,
      Price |-> price,
      Value |-> value,
      UnrealizedGain |-> unrealizedGain,
      UnrealizedGainPct |-> PctOfDebit(unrealizedGain, absDebit),
      RealizedGain |-> cumulativeRealizedReturn,
      RealizedGainPct |-> PctOfDebit(cumulativeRealizedReturn, absDebit),
      TotalReturn |-> totalReturn,
      TotalReturnPct |-> PctOfDebit(totalReturn, absDebit),
      Db |-> totalDebit,
      cashBalance |-> cashBalance]

processHoldings(txns, lq, statusType, includeZeroQuantity) ==
  LET groups == GroupBy(txns, HoldingsKey)
      cashBalance == HoldingsCashBalance(txns)
      made == [i \in 1..Len(groups) |->
                 GroupHolding(groups[i], lq, statusType, includeZeroQuantity, cashBalance)]
      Kept(h) == KeepsHolding(includeZeroQuantity, h.Quantity)
  IN FilterSeq(made, Kept)

----------------------------------------------------------------------------
(* Time-Series Reconstructor: processTimeSeriesData *)

PseudoSymbols ==
  {<<"Deposit">>, <<"DEPOSIT">>, <<"Cash">>, <<"CASH">>, <<"Expenses">>,
   <<"EXPENSES">>, <<>>}

IsSecurity(symbol) == symbol \notin PseudoSymbols

(* transactions.filter((t) => t.Account === selectedAccount) *)
SeriesTransactions(txns, account) ==
  LET Mine(t) == account = <<"all">> \/ t.Account = account
  IN FilterSeq(txns, Mine)

(* Array.from(new Set([...transactionDates, ...uniqueQuoteDates])).sort();
   a date of 0 stands for a missing (falsy) Date cell *)
RECURSIVE SortDates(_)
SortDates(S) ==
  IF S = {} THEN <<>>
  ELSE LET d == CHOOSE x \in S : \A y \in S : x <= y
       IN <<d>> \o SortDates(S \ {d})

SortedDatesOfTransactions(txns, qs) ==
  SortDates({txns[i].Date : i \in 1..Len(txns)} \ {0})

SortedDates(txns, qs) ==
  SortDates(({txns[i].Date : i \in 1..Len(txns)} \cup
             {qs[i].Date : i \in 1..Len(qs)}) \ {0})

(* quotesByDateAndSymbol.get(date): the last row of a date and symbol wins *)
DateQuoteRows(qs, date) ==
  {i \in 1..Len(qs) : qs[i].Date # 0 /\ qs[i].Symbol # <<>> /\ qs[i].Date = date}

HasDatePrice(qs, date, symbol) ==
  \E i \in DateQuoteRows(qs, date) : qs[i].Symbol = symbol

DatePrice(qs, date, symbol) ==
  LET rows == {i \in DateQuoteRows(qs, date) : qs[i].Symbol = symbol}
  IN qs[CHOOSE i \in rows : \A j \in rows : j <= i].Close

(* egx30Map: rows of symbol EGX30 with a positive close *)
Egx30Rows(qs, date) ==
  {i \in 1..Len(qs) : qs[i].Symbol = <<"EGX30">> /\ qs[i].Date # 0
                      /\ qs[i].Close > 0 /\ qs[i].Date = date}

HasEgx30(qs, date) == Egx30Rows(qs, date) # {}

Egx30Value(qs, date) ==
  LET rows == Egx30Rows(qs, date)
  IN qs[CHOOSE i \in rows : \A j \in rows : j <= i].Close

FreshHolding ==
  [quantity |-> 0, costChangeSum |-> 0, cumulativeRealizedReturn |-> 0,
   totalDebit |-> 0, lastKnownPrice |-> 0]

(* Math.abs(currentHolding.quantity) < 0.0001 *)
IsPrunedNever(quantity) == FALSE

IsPruned(quantity) == Abs(quantity) < QTY_EPSILON

(* holdingsMap.get(symbol) || fresh, updated, then deleted or set *)
UpdateHoldingsMap(m, t) ==
  LET old == IF t.Symbol \in DOMAIN m THEN m[t.Symbol] ELSE FreshHolding
      new == [old EXCEPT !.quantity = @ + QtyOf(t),
                         !.costChangeSum = @ + CostOf(t),
                         !.cumulativeRealizedReturn = @ + RealizedOf(t),
                         !.totalDebit = @ + DebitOf(t)]
  IN IF IsPruned(new.quantity) THEN MapDelete(m, t.Symbol)
     ELSE MapSet(m, t.Symbol, new)

(* the body of dateTransactions.forEach *)
ApplyTransactionOfSecurities(st, t) ==
  IF ~IsSecurity(t.Symbol) THEN st
  ELSE LET st1 == [st EXCEPT !.cashBalance = @ + CashOf(t),
                             !.totalRealizedGain = @ + RealizedOf(t)]
       IN IF t.StatusTr = "Time Deposit"
          THEN [st1 EXCEPT !.timeDepositHoldings = UpdateHoldingsMap(@, t)]
          ELSE [st1 EXCEPT !.holdings = UpdateHoldingsMap(@, t)]

ApplyTransaction(st, t) ==
  LET st1 == [st EXCEPT !.cashBalance = @ + CashOf(t),
                        !.totalRealizedGain = @ + RealizedOf(t)]
  IN IF ~IsSecurity(t.Symbol) THEN st1
     ELSE IF t.StatusTr = "Time Deposit"
     THEN [st1 EXCEPT !.timeDepositHoldings = UpdateHoldingsMap(@, t)]
     ELSE [st1 EXCEPT !.holdings = UpdateHoldingsMap(@, t)]

RECURSIVE ApplyTransactions(_, _, _)
ApplyTransactions(st, txns, i) ==
  IF i > Len(txns) THEN st
  ELSE ApplyTransactions(ApplyTransaction(st, txns[i]), txns, i + 1)

(* The price chosen for one holding on one date: same-day quote, else the
   holding's last known price, else the latest quote.  sameDay tells whether
   the first branch was taken. *)
ResolveSeriesPrice(qs, lq, date, symbol, holding) ==
  IF HasDatePrice(qs, date, symbol) /\ DatePrice(qs, date, symbol) > 0
  THEN [price |-> DatePrice(qs, date, symbol),
        lastKnownPrice |-> DatePrice(qs, date, symbol), sameDay |-> TRUE]
  ELSE IF holding.lastKnownPrice > 0
  THEN [price |-> holding.lastKnownPrice,
        lastKnownPrice |-> holding.lastKnownPrice, sameDay |-> FALSE]
  ELSE IF symbol \in DOMAIN lq
  THEN [price |-> lq[symbol].Close,
        lastKnownPrice |-> lq[symbol].Close, sameDay |-> FALSE]
  ELSE [price |-> 0, lastKnownPrice |-> holding.lastKnownPrice, sameDay |-> FALSE]

(* holdings.forEach / timeDepositHoldings.forEach: the map with its last
   known prices updated, and the sums over the holdings with a price > 0 *)
ValueMap(m, qs, lq, date) ==
  LET R(s) == ResolveSeriesPrice(qs, lq, date, s, m[s])
      Priced == {s \in DOMAIN m : R(s).price > 0}
      RECURSIVE SumSet(_, _)
      SumSet(S, which) ==
        IF S = {} THEN 0
        ELSE LET s == CHOOSE x \in S : TRUE
                 value == m[s].quantity * R(s).price
                 openCost == m[s].costChangeSum + m[s].cumulativeRealizedReturn
             IN (IF which = "value" THEN value ELSE value - openCost)
                + SumSet(S \ {s}, which)
  IN [map |-> [s \in DOMAIN m |-> [m[s] EXCEPT !.lastKnownPrice = R(s).lastKnownPrice]],
      equityValue |-> SumSet(Priced, "value"),
      unrealizedGain |-> SumSet(Priced, "gain"),
      allSameDay |-> \A s \in DOMAIN m : R(s).sameDay]

InitialReplay ==
  [cashBalance |-> 0, holdings |-> EmptyMap, timeDepositHoldings |-> EmptyMap,
   totalRealizedGain |-> 0, lastValidEquityValue |-> 0, lastValidEgx30Value |-> 0,
   lastValidUnrealizedGain |-> 0, lastValidTotalValue |-> 0,
   timeSeriesData |-> <<>>,
   locals |-> [date |-> 0, equityValue |-> 0, unrealizedGain |-> 0,
               timeDepositUnrealizedGain |-> 0, hasAllPrices |-> TRUE,
               carried |-> FALSE, dateTransactions |-> <<>>]]

(* if ((!hasAllPrices || equityValue === 0) && lastValidEquityValue > 0) *)
CarriesEquity(hasAllPrices, equityValue, lastValidEquityValue) ==
  (~hasAllPrices \/ equityValue = 0) /\ lastValidEquityValue > 0

(* if (totalValue === 0 && lastValidTotalValue > 0) *)
CarriesTotalNever(totalValue, lastValidTotalValue) ==
  totalValue = 0 /\ lastValidTotalValue > 0 /\ lastValidTotalValue < 0

CarriesTotal(totalValue, lastValidTotalValue) ==
  totalValue = 0 /\ lastValidTotalValue > 0

(* One iteration of sortedDates.forEach: the day's transactions, the
   valuation of both maps, the carry-forward rules and the emitted point.
   locals keeps the iteration's local variables as they were computed
   before the carry-forward rules replaced them. *)
ReplayDate(st, date, txns, qs, lq, account) ==
  LET OnDate(t) == t.Date = date
      dateTransactions == FilterSeq(txns, OnDate)
      st1 == ApplyTransactions(st, dateTransactions, 1)
      regular == ValueMap(st1.holdings, qs, lq, date)
      deposits == ValueMap(st1.timeDepositHoldings, qs, lq, date)
      equityComputed == regular.equityValue + deposits.equityValue
      hasAllPrices == regular.allSameDay
      timeDepositUnrealizedGain == deposits.unrealizedGain
      carry == CarriesEquity(hasAllPrices, equityComputed, st1.lastValidEquityValue)
      equityValue == IF carry THEN st1.lastValidEquityValue ELSE equityComputed
      unrealizedGain == IF carry THEN st1.lastValidUnrealizedGain
                        ELSE regular.unrealizedGain
      validEquity == IF ~carry /\ equityComputed > 0 THEN equityComputed
                     ELSE st1.lastValidEquityValue
      validGain1 == IF ~carry /\ equityComputed > 0 THEN regular.unrealizedGain
                    ELSE st1.lastValidUnrealizedGain
      validEgx30 == IF HasEgx30(qs, date) THEN Egx30Value(qs, date)
                    ELSE st1.lastValidEgx30Value
      totalUnrealizedGain == unrealizedGain + timeDepositUnrealizedGain
      validGain == IF totalUnrealizedGain # 0 THEN totalUnrealizedGain ELSE validGain1
      hasQuotes == IF DateQuoteRows(qs, date) # {} THEN "true" ELSE "undefined"
      totalValue == equityValue + st1.cashBalance
      keepTotal == CarriesTotal(totalValue, st1.lastValidTotalValue)
      point == [date |-> date,
                cashValue |-> st1.cashBalance,
                equityValue |-> IF keepTotal THEN validEquity ELSE equityValue,
                totalValue |-> IF keepTotal THEN st1.lastValidTotalValue ELSE totalValue,
                realizedGain |-> st1.totalRealizedGain,
                unrealizedGain |-> IF keepTotal THEN validGain ELSE totalUnrealizedGain,
                egx30 |-> validEgx30,
                hasQuotes |-> hasQuotes,
                account |-> account]
  IN [st1 EXCEPT
        !.holdings = regular.map,
        !.timeDepositHoldings = deposits.map,
        !.lastValidEquityValue = validEquity,
        !.lastValidUnrealizedGain = validGain,
        !.lastValidEgx30Value = validEgx30,
        !.lastValidTotalValue = IF keepTotal THEN @ ELSE totalValue,
        !.timeSeriesData = Append(@, point),
        !.locals = [date |-> date, equityValue |-> equityComputed,
                    unrealizedGain |-> regular.unrealizedGain,
                    timeDepositUnrealizedGain |-> timeDepositUnrealizedGain,
                    hasAllPrices |-> hasAllPrices, carried |-> carry,
                    dateTransactions |-> dateTransactions]]

RECURSIVE ReplayFrom(_, _, _, _, _, _, _)
ReplayFrom(st, dates, i, txns, qs, lq, account) ==
  IF i > Len(dates) THEN st
  ELSE ReplayFrom(ReplayDate(st, dates[i], txns, qs, lq, account),
                  dates, i + 1, txns, qs, lq, account)

processTimeSeriesData(txns, qs, account, lq) ==
  LET mine == SeriesTransactions(txns, account)
  IN ReplayFrom(InitialReplay, SortedDates(mine, qs), 1, mine, qs, lq,
                account).timeSeriesData

----------------------------------------------------------------------------
(* Open-deposit valuation in the tabs *)

(* data.transactions.filter(Status Tr === "Open Deposits" && account) *)
OpenDepositsTransactions(txns, account) ==
  LET P(t) == t.StatusTr = "Open Deposits"
              /\ (account = <<"all">> \/ t.Account = account)
  IN FilterSeq(txns, P)

(* quotes.filter(Symbol === exactSymbol && Close > 0)
         .sort((a, b) => date(b) - date(a))[0]:
   the greatest date, and among equal dates the first row in input order *)
PositiveQuoteRows(qs, symbol) ==
  {i \in 1..Len(qs) : qs[i].Symbol = symbol /\ qs[i].Close > 0}

MaxDateQuote(qs, rows) ==
  qs[CHOOSE i \in rows :
       \A j \in rows : qs[j].Date < qs[i].Date
                       \/ (qs[j].Date = qs[i].Date /\ i <= j)]

(* Number(transactions[0]["Net Price"]) || 1.0 *)
NetPriceOrOne(t) == IF Num(t.NetPrice) # 0 THEN Num(t.NetPrice) ELSE LAST_RESORT_PRICE

(* OpenDeposits.openDeposits: latest quote with a positive close, else the
   quotes list, else the net price *)
OpenDepositsPrice(lq, qs, group) ==
  LET exactSymbol == group.txns[1].Symbol
      p1 == IF exactSymbol \in DOMAIN lq /\ lq[exactSymbol].Close > 0
            THEN lq[exactSymbol].Close ELSE 0
      rows == PositiveQuoteRows(qs, exactSymbol)
      p2 == IF p1 = 0 /\ rows # {} THEN MaxDateQuote(qs, rows).Close ELSE p1
  IN IF p2 = 0 THEN NetPriceOrOne(group.txns[1]) ELSE p2

(* Summary.processOpenDeposits: the latest quote's close whenever the symbol
   has a latest quote, else the quotes list, else the net price *)
SummaryDepositsPrice(lq, qs, group) ==
  LET exactSymbol == group.txns[1].Symbol
      rows == PositiveQuoteRows(qs, exactSymbol)
  IN IF exactSymbol \in DOMAIN lq THEN lq[exactSymbol].Close
     ELSE IF rows # {} THEN MaxDateQuote(qs, rows).Close
     ELSE NetPriceOrOne(group.txns[1])

DepositHolding(group, price) ==
  LET parts == Split(group.key, "|")
      quantity == SumOver(group.txns, QtyOf)
      costChangeSum == SumOver(group.txns, CostOf)
      cumulativeRealizedReturn == SumOver(group.txns, RealizedOf)
      openCost == costChangeSum + cumulativeRealizedReturn
      value == quantity * price
      unrealizedGain == value - openCost
  IN [Symbol |-> group.txns[1].Symbol,
      Account |-> parts[2],
      Quantity |-> quantity,
      AvgCost |-> IF quantity # 0 THEN JsDiv(openCost, quantity) ELSE JsZero,
      Price |-> price,
      Value |-> value,
      Cost |-> openCost,
      TotalCost |-> costChangeSum,
      UnrealizedGain |-> unrealizedGain,
      UnrealizedGainPct |-> IF openCost # 0
                            THEN JsTimes(JsDiv(unrealizedGain, Abs(openCost)), 100)
                            ELSE JsZero,
      RealizedGain |-> cumulativeRealizedReturn]

DepositHoldings(txns, lq, qs, PriceOf(_, _, _)) ==
  LET groups == GroupBy(txns, DepositsKey)
      made == [i \in 1..Len(groups) |->
                 DepositHolding(groups[i], PriceOf(lq, qs, groups[i]))]
      Kept(h) == Abs(h.Quantity) > QTY_EPSILON
  IN FilterSeq(made, Kept)

openDeposits(txns, lq, qs, account) ==
  DepositHoldings(OpenDepositsTransactions(txns, account), lq, qs, OpenDepositsPrice)

processOpenDeposits(txns, lq, qs) ==
  DepositHoldings(txns, lq, qs, SummaryDepositsPrice)

----------------------------------------------------------------------------
(* Measures 1.5 and 4.5-4.9 (Measures tab), and their copies zr1.5 and
   Zr4.6 in the Summary tab *)

(* String.prototype.startsWith on token sequences *)
StartsWith(s, prefix) ==
  Len(prefix) <= Len(s) /\ SubSeq(s, 1, Len(prefix)) = prefix

(* quotes whose Symbol starts with exactSymbol.split("@")[0], Close > 0 *)
SimilarQuoteRows(qs, exactSymbol) ==
  {i \in 1..Len(qs) : /\ qs[i].Symbol # <<>>
                      /\ StartsWith(qs[i].Symbol, Split(exactSymbol, "@")[1])
                      /\ qs[i].Close > 0}

(* the price of measures 1.5 and 4.6: the latest quote's close whenever the
   symbol has a latest quote, else the symbol's latest positive quote, else
   the latest positive quote of a symbol with the same base, else the net
   price *)
MeasureDepositsPrice(lq, qs, group) ==
  LET exactSymbol == group.txns[1].Symbol
      rows == PositiveQuoteRows(qs, exactSymbol)
      similar == SimilarQuoteRows(qs, exactSymbol)
  IN IF exactSymbol \in DOMAIN lq THEN lq[exactSymbol].Close
     ELSE IF rows # {} THEN MaxDateQuote(qs, rows).Close
     ELSE IF similar # {} THEN MaxDateQuote(qs, similar).Close
     ELSE NetPriceOrOne(group.txns[1])

MeasuredDeposits(txns, lq, qs, account) ==
  DepositHoldings(OpenDepositsTransactions(txns, account), lq, qs,
                  MeasureDepositsPrice)

(* data.accounts?.find(acc => acc.name === "AhlyBank")?.summaryMetrics
   ?.cashBalance || 0, for "all" and for AhlyBank *)
AhlyBankCash(accounts, account) ==
  LET found == {i \in 1..Len(accounts) : accounts[i].name = <<"AhlyBank">>}
  IN IF account \in {<<"all">>, <<"AhlyBank">>} /\ found # {}
     THEN accounts[CHOOSE i \in found : \A j \in found : i <= j]
            .summaryMetrics.cashBalance
     ELSE 0

(* 1.5 Total Value (Deposits) *)
Measure1_5(data, lq, qs, account) ==
  LET Value(h) == h.Value
  IN SumOver(MeasuredDeposits(data.transactions, lq, qs, account), Value)
     + AhlyBankCash(data.accounts, account)

(* 4.5 Total Return (Positions) *)
Measure4_5(data) ==
  LET NotAhly(h) == h.Account # <<"AhlyBank">>
      Return(h) == h.UnrealizedGain + h.RealizedGain
  IN SumOver(FilterSeq(data.currentHoldings, NotAhly), Return)

(* 4.6 Unrealized G/L (Deposits) *)
Measure4_6(data, lq, qs, account) ==
  LET Unrealized(h) == h.UnrealizedGain
  IN SumOver(MeasuredDeposits(data.transactions, lq, qs, account), Unrealized)

(* the Realized3 sum of the rows of one deposit status and the account *)
DepositsRealized(txns, status, account) ==
  LET P(t) == t.StatusTr = status /\ (account = <<"all">> \/ t.Account = account)
  IN SumOver(FilterSeq(txns, P), RealizedOf)

(* h["Status Tr"] of a Holding: processHoldings builds holdings with a
   Status field and without a "Status Tr" field *)
HoldingStatusTr(h) == "undefined"

(* the RealizedGain (or UnrealizedGain) sums over the holdings whose
   "Status Tr" is a given tag *)
HoldingsOfStatusTr(hs, status) ==
  LET P(h) == HoldingStatusTr(h) = status IN FilterSeq(hs, P)

(* 4.7 Realized G/L (Deposits): 4.7.1 + 4.7.2 *)
Measure4_7(data, account) ==
  LET Realized(h) == h.RealizedGain
      AhlyClosed(h) == h.Account = <<"AhlyBank">>
      ahlyBankRealizedGain ==
        SumOver(FilterSeq(HoldingsOfStatusTr(data.closedPositions, "Closed Deposits"),
                          AhlyClosed), Realized)
  IN DepositsRealized(data.transactions, "Open Deposits", account)
     + DepositsRealized(data.transactions, "Closed Deposits", account)
     + ahlyBankRealizedGain

(* 4.8 Total Return (Deposits) *)
Measure4_8WithoutLiteral(data, account) ==
  LET Unrealized(h) == h.UnrealizedGain
      Realized(h) == h.RealizedGain
      Mine(h) == account = <<"all">> \/ h.Account = account
      closedDepositsRealizedGain ==
        SumOver(FilterSeq(HoldingsOfStatusTr(data.closedPositions, "Closed Deposits"),
                          Mine), Realized)
  IN SumOver(HoldingsOfStatusTr(data.currentHoldings, "Open Deposits"), Unrealized)
     + DepositsRealized(data.transactions, "Open Deposits", account)
     + closedDepositsRealizedGain

Measure4_8(data, account) ==
  Measure4_8WithoutLiteral(data, account) + HARDCODED_RETURN

(* 4.9 Total Portfolio Return *)
Measure4_9(data) ==
  LET Return(h) == h.UnrealizedGain + h.RealizedGain
      Realized(h) == h.RealizedGain
  IN SumOver(data.currentHoldings, Return)
     + SumOver(data.closedPositions, Realized) + HARDCODED_RETURN

(* what the Measures table shows *)
Measures(data, lq, qs, account) ==
  [m1_5 |-> Measure1_5(data, lq, qs, account),
   m4_5 |-> Measure4_5(data),
   m4_6 |-> Measure4_6(data, lq, qs, account),
   m4_7 |-> Measure4_7(data, account),
   m4_8 |-> Measure4_8(data, account),
   m4_9 |-> Measure4_9(data)]

(* Summary: the copies of measures 4.6 and 1.5 *)
unrealizedGainZr4_6(data, lq, qs, account) == Measure4_6(data, lq, qs, account)

totalValueDepositsZr1_5(data, lq, qs, account) == Measure1_5(data, lq, qs, account)

----------------------------------------------------------------------------
(* CurrentHoldings tab: per-symbol re-aggregation for "all accounts" *)

(* AvgCost = Cost / Quantity, UnrealizedGainPct = UnrealizedGain / Cost * 100 *)
AggregatedAvgCost(cost, quantity) == JsDiv(cost, quantity)

AggregatedGainPct(unrealizedGain, cost) == JsTimes(JsDiv(unrealizedGain, cost), 100)

AggregateAdd(acc, h) ==
  LET Merge(row) ==
        LET q == row.Quantity + h.Quantity
            v == row.Value + h.Value
            c == row.Cost + h.Cost
            u == row.UnrealizedGain + h.UnrealizedGain
        IN [row EXCEPT !.Quantity = q, !.Value = v, !.Cost = c,
                       !.UnrealizedGain = u,
                       !.AvgCost = AggregatedAvgCost(c, q),
                       !.UnrealizedGainPct = AggregatedGainPct(u, c)]
      zeroed == [h EXCEPT !.Quantity = 0, !.Value = 0, !.Cost = 0,
                          !.UnrealizedGain = 0]
  IN IF \E i \in 1..Len(acc) : acc[i].Symbol = h.Symbol
     THEN [i \in 1..Len(acc) |->
             IF acc[i].Symbol = h.Symbol THEN Merge(acc[i]) ELSE acc[i]]
     ELSE Append(acc, Merge(zeroed))

RECURSIVE AggregateFrom(_, _, _)
AggregateFrom(hs, i, acc) ==
  IF i > Len(hs) THEN acc ELSE AggregateFrom(hs, i + 1, AggregateAdd(acc, hs[i]))

aggregatedHoldings(hs, account) ==
  LET Mine(h) == account = <<"all">> \/ h.Account = account
      filteredHoldings == FilterSeq(hs, Mine)
  IN IF account = <<"all">> THEN AggregateFrom(filteredHoldings, 1, <<>>)
     ELSE filteredHoldings

----------------------------------------------------------------------------
(* Account/Portfolio Rollup: mergeTimeSeriesData *)

(* a || b on the values "true", "false", "undefined" *)
JsOrKeepingLeft(a, b) == a

JsOr(a, b) == IF a = "true" THEN a ELSE b

MergeEntryKeepingLatest(merged, entry) ==
  [merged EXCEPT
     !.cashValue = @ + entry.cashValue,
     !.equityValue = @ + entry.equityValue,
     !.totalValue = entry.totalValue,
     !.realizedGain = @ + entry.realizedGain,
     !.unrealizedGain = @ + entry.unrealizedGain,
     !.egx30 = IF entry.egx30 # 0 THEN entry.egx30 ELSE @,
     !.hasQuotes = JsOr(@, entry.hasQuotes),
     !.accountValues = IF entry.account # <<>>
                       THEN MapSet(@, entry.account, entry.totalValue) ELSE @]

MergeEntry(merged, entry) ==
  [merged EXCEPT
     !.cashValue = @ + entry.cashValue,
     !.equityValue = @ + entry.equityValue,
     !.totalValue = @ + entry.totalValue,
     !.realizedGain = @ + entry.realizedGain,
     !.unrealizedGain = @ + entry.unrealizedGain,
     !.egx30 = IF entry.egx30 # 0 THEN entry.egx30 ELSE @,
     !.hasQuotes = JsOr(@, entry.hasQuotes),
     !.accountValues = IF entry.account # <<>>
                       THEN MapSet(@, entry.account, entry.totalValue) ELSE @]

RECURSIVE MergeDate(_, _, _, _)
MergeDate(series, i, date, merged) ==
  IF i > Len(series) THEN merged
  ELSE LET found == {k \in 1..Len(series[i]) : series[i][k].date = date}
           entry == series[i][CHOOSE k \in found : \A j \in found : k <= j]
       IN MergeDate(series, i + 1, date,
                    IF found # {} THEN MergeEntry(merged, entry) ELSE merged)

mergeTimeSeriesData(series) ==
  LET allDates == UNION {{series[i][k].date : k \in 1..Len(series[i])} :
                         i \in 1..Len(series)}
      sortedDates == SortDates(allDates)
      Blank(date) == [date |-> date, cashValue |-> 0, equityValue |-> 0,
                      totalValue |-> 0, realizedGain |-> 0, unrealizedGain |-> 0,
                      egx30 |-> 0, hasQuotes |-> "false", accountValues |-> EmptyMap]
  IN [d \in 1..Len(sortedDates) |->
        MergeDate(series, 1, sortedDates[d], Blank(sortedDates[d]))]

----------------------------------------------------------------------------
(* processPortfolioData: one account's results, and the roll-up *)

SumField(hs, F(_)) == SumOver(hs, F)

(* the callback of uniqueAccounts.map *)
AccountData(txns, qs, lq, account) ==
  LET accountTransactions == AccountTransactions(txns, account)
      currentHoldings ==
        processHoldings(OpenTransactions(accountTransactions), lq, "Open Items", FALSE)
      closedPositions ==
        processHoldings(ClosedTransactions(accountTransactions), lq, "", TRUE)
      timeDepositGroups ==
        GroupBy(TimeDepositTransactions(accountTransactions), HoldingsKey)
      timeDepositHoldings ==
        processHoldings(
          FlatSeq([i \in 1..Len(timeDepositGroups) |-> timeDepositGroups[i].txns]),
          lq, "Time Deposit", FALSE)
      Value(h) == h.Value
      Unrealized(h) == h.UnrealizedGain
      Realized(h) == h.RealizedGain
      cashBalance == SumOver(accountTransactions, CashOf)
      equityValue == SumField(currentHoldings, Value)
  IN [name |-> account,
      currentHoldings |-> currentHoldings,
      closedPositions |-> closedPositions,
      timeSeriesData |-> processTimeSeriesData(accountTransactions, qs, account, lq),
      summaryMetrics |->
        [totalValue |-> equityValue + cashBalance,
         cashBalance |-> cashBalance,
         equityValue |-> equityValue,
         realizedGain |-> SumField(closedPositions, Realized),
         unrealizedGain |-> SumField(currentHoldings, Unrealized)
                            + SumField(timeDepositHoldings, Unrealized)]]

EmptyMetrics ==
  [totalValue |-> 0, cashBalance |-> 0, equityValue |-> 0, realizedGain |-> 0,
   unrealizedGain |-> 0]

EmptyPortfolio ==
  [accounts |-> <<>>, currentHoldings |-> <<>>, closedPositions |-> <<>>,
   timeSeriesData |-> <<>>, transactions |-> <<>>, summaryMetrics |-> EmptyMetrics]

(* selectedAccount === "all": flatten and sum; else the selected account's
   own data, or empty data when no account has that name *)
RollUp(accounts, selected) ==
  LET Cash(a) == a.summaryMetrics.cashBalance
      Equity(a) == a.summaryMetrics.equityValue
      Realized(a) == a.summaryMetrics.realizedGain
      Unrealized(a) == a.summaryMetrics.unrealizedGain
      found == {i \in 1..Len(accounts) : accounts[i].name = selected}
      one == accounts[CHOOSE i \in found : \A j \in found : i <= j]
  IN IF selected = <<"all">>
     THEN [currentHoldings |->
             FlatSeq([i \in 1..Len(accounts) |-> accounts[i].currentHoldings]),
           closedPositions |->
             FlatSeq([i \in 1..Len(accounts) |-> accounts[i].closedPositions]),
           timeSeriesData |->
             mergeTimeSeriesData([i \in 1..Len(accounts) |-> accounts[i].timeSeriesData]),
           summaryMetrics |->
             [totalValue |-> SumOver(accounts, Equity) + SumOver(accounts, Cash),
              cashBalance |-> SumOver(accounts, Cash),
              equityValue |-> SumOver(accounts, Equity),
              realizedGain |-> SumOver(accounts, Realized),
              unrealizedGain |-> SumOver(accounts, Unrealized)]]
     ELSE IF found # {}
     THEN [currentHoldings |-> one.currentHoldings,
           closedPositions |-> one.closedPositions,
           timeSeriesData |-> one.timeSeriesData,
           summaryMetrics |->
             [one.summaryMetrics EXCEPT
                !.totalValue = one.summaryMetrics.equityValue
                               + one.summaryMetrics.cashBalance]]
     ELSE EmptyPortfolio

(* the returned PortfolioData (lines 1467-1482) *)
PortfolioData(accounts, selected, txns) ==
  LET all == RollUp(accounts, selected)
  IN [accounts |-> accounts,
      currentHoldings |-> all.currentHoldings,
      closedPositions |-> all.closedPositions,
      timeSeriesData |-> all.timeSeriesData,
      transactions |-> txns,
      summaryMetrics |-> all.summaryMetrics]

(* processFixedIncomeHoldings of the dashboard: the "Open Deposits" rows
   grouped by `${symbol}|${account}`, priced at the first row's Net Price *)
FixedIncomeHolding(group) ==
  LET txns == group.txns
      quantity == SumOver(txns, QtyOf)
      costChangeSum == SumOver(txns, CostOf)
      cumulativeRealizedReturn == SumOver(txns, RealizedOf)
      openCost == costChangeSum + cumulativeRealizedReturn
      price == Num(txns[1].NetPrice)
      value == quantity * price
      unrealizedGain == value - openCost
  IN [Symbol |-> Split(group.key, "|")[1],
      Account |-> Split(group.key, "|")[2],
      Sector |-> "Fixed Income",
      Quantity |-> quantity,
      Value |-> value,
      Cost |-> openCost,
      TotalCost |-> costChangeSum,
      UnrealizedGain |-> unrealizedGain,
      RealizedGain |-> cumulativeRealizedReturn,
      Price |-> price,
      TotalReturn |-> cumulativeRealizedReturn + unrealizedGain]

processFixedIncomeHoldings(txns) ==
  LET IsDeposit(t) == t.StatusTr = "Open Deposits"
      groups == GroupBy(FilterSeq(txns, IsDeposit), DepositsKey)
      all == [i \in 1..Len(groups) |-> FixedIncomeHolding(groups[i])]
      Kept(h) == Abs(h.Quantity) > QTY_EPSILON
  IN FilterSeq(all, Kept)

(* calculateAhlyBankCashBalance: 0 unless the selected account is AhlyBank,
   which is the name of no account here *)
calculateAhlyBankCashBalance(txns, selected) == 0

(* Math.round on amounts that are whole numbers *)
MathRound(x) == x

(* processData, lines 449-481: the returned data extended with the fixed
   income fields, its summaryMetrics recomputed from currentHoldings *)
ExtendedData(processedData, selected) ==
  LET Value(h) == h.Value
      Unrealized(h) == h.UnrealizedGain
      Realized(h) == h.RealizedGain
      totalValue == MathRound(SumOver(processedData.currentHoldings, Value))
      totalCash == MathRound(processedData.summaryMetrics.cashBalance)
      totalUnrealizedGain ==
        MathRound(SumOver(processedData.currentHoldings, Unrealized))
      totalRealizedGain ==
        MathRound(SumOver(processedData.currentHoldings, Realized))
  IN [accounts |-> processedData.accounts,
      currentHoldings |-> processedData.currentHoldings,
      closedPositions |-> processedData.closedPositions,
      timeSeriesData |-> processedData.timeSeriesData,
      transactions |-> processedData.transactions,
      fixedIncomeHoldings |-> processFixedIncomeHoldings(processedData.transactions),
      ahlyBankCash |->
        calculateAhlyBankCashBalance(processedData.transactions, selected),
      summaryMetrics |->
        [totalValue |-> totalValue,
         cashBalance |-> totalCash,
         equityValue |-> totalValue - totalCash,
         realizedGain |-> totalRealizedGain,
         unrealizedGain |-> totalUnrealizedGain]]

(* if (!transactionsText || !symbolsText || !quotesText) *)
MissingTextIgnoringQuotes(t) == ~t.transactionsText \/ ~t.symbolsText

MissingText(t) == ~t.transactionsText \/ ~t.symbolsText \/ ~t.quotesText

(* uniqueAccounts.map(...) as one call: the entries of all the accounts *)
processAccounts(txns, qs, lq) ==
  LET names == UniqueAccounts(txns)
  IN [i \in 1..Len(names) |-> AccountData(txns, qs, lq, names[i])]

(* what the guard and the catch block hand to logFunction *)
MissingTextReports ==
  << "Error: Missing required CSV data",
     "Error in processPortfolioData: Missing required CSV data",
     "Stack trace" >>

----------------------------------------------------------------------------
(* Inputs of the model *)

SymX == <<"X">>

SymXY == <<"X", "-", "Y">>

SymY == <<"Y">>

SymZ == <<"Z">>

SymD == <<"D", "@", "1">>

SymCash == <<"Cash">>

SymEgx30 == <<"EGX30">>

AcctA == <<"A">>

AcctB == <<"B">>

AllAccounts == <<"all">>

(* Rows the transaction extract of the holdings runs is drawn from: open
   items that net to zero, to a partial close and to exactly the epsilon; a
   zero cost basis; a symbol holding "-"; closed tags with a non-zero net
   quantity; a time deposit without quotes; open deposits with and without
   a net price; an unrecognised tag; cash paid into each account. *)
TxnPool ==
  { Txn(SymX, AcctA, 1, "Open Items", <<100>>, <<1000>>, <<0>>, <<-1000>>, <<10>>, <<1000>>),
    Txn(SymX, AcctA, 2, "Open Items", <<-40>>, <<-400>>, <<50>>, <<450>>, <<11>>, <<0>>),
    Txn(SymX, AcctA, 2, "Open Items", <<-100>>, <<-1000>>, <<30>>, <<1030>>, <<>>, <<>>),
    Txn(SymX, AcctB, 1, "Open Items", <<3>>, <<0>>, <<0>>, <<0>>, <<>>, <<0>>),
    Txn(SymX, AcctB, 1, "Open Items", <<-100>>, <<-1000>>, <<0>>, <<1000>>, <<10>>, <<0>>),
    Txn(SymY, AcctB, 1, "Open Items", <<1>>, <<5>>, <<0>>, <<-5>>, <<5>>, <<5>>),
    Txn(SymXY, AcctA, 1, "Open Items", <<4>>, <<8>>, <<0>>, <<-8>>, <<2>>, <<8>>),
    Txn(SymY, AcctA, 1, "Cleared-RE", <<2>>, <<4>>, <<5>>, <<1>>, <<2>>, <<4>>),
    Txn(SymY, AcctA, 2, "Cleared", <<-2>>, <<-4>>, <<1>>, <<5>>, <<>>, <<0>>),
    Txn(SymZ, AcctA, 1, "Time Deposit", <<3>>, <<3>>, <<0>>, <<-3>>, <<1>>, <<3>>),
    Txn(SymD, AcctA, 1, "Open Deposits", <<4>>, <<4>>, <<0>>, <<-4>>, <<3>>, <<4>>),
    Txn(SymD, AcctB, 1, "Open Deposits", <<3>>, <<3>>, <<1>>, <<-3>>, <<>>, <<3>>),
    Txn(SymX, AcctA, 1, "Dividend", <<1>>, <<1>>, <<2>>, <<2>>, <<>>, <<>>),
    Txn(SymCash, AcctA, 1, "Cash", <<>>, <<>>, <<>>, <<100>>, <<>>, <<>>),
    Txn(SymCash, AcctB, 1, "Cash", <<>>, <<>>, <<>>, <<100>>, <<>>, <<>>) }

(* Quote extracts of the holdings runs: no quote, one quote, a latest quote
   whose close is 0 or negative beside an older positive one, two quotes of
   one date, a quote for the symbol holding "-", an undated quote followed
   by a dated one, a benchmark quote on a date without transactions. *)
QuoteLists ==
  { <<>>,
    <<Quote(SymX, 1, 12), Quote(SymEgx30, 2, 10)>>,
    <<Quote(SymX, 0, 12), Quote(SymX, 2, 9)>>,
    <<Quote(SymX, 1, 12)>>,
    <<Quote(SymX, 1, 12), Quote(SymX, 2, 0)>>,
    <<Quote(SymX, 1, 12), Quote(SymX, 1, 9)>>,
    <<Quote(SymX, 1, 12), Quote(SymXY, 1, 7)>>,
    <<Quote(SymXY, 1, 7), Quote(SymY, 1, 5)>>,
    <<Quote(SymD, 1, 7), Quote(SymD, 2, 0)>>,
    <<Quote(SymD, 2, -1), Quote(SymD, 1, 7), Quote(SymY, 1, 5)>>,
    <<Quote(SymY, 1, 5), Quote(SymD, 1, 7), Quote(SymX, 1, 12)>> }

NoViews == [tab |-> "none", rows |-> <<>>]

(* the dashboard before any file is processed: rawData of three empty
   texts, portfolioData null *)
NoDashboard ==
  [rawData |-> [transactionsText |-> FALSE, symbolsText |-> FALSE,
                quotesText |-> FALSE],
   portfolioData |-> <<>>, origin |-> "none", toast |-> ""]

----------------------------------------------------------------------------
(* The processing run (processPortfolioData) followed by the tabs *)

TextStates ==
  [transactionsText : BOOLEAN, symbolsText : BOOLEAN, quotesText : BOOLEAN]

AllTexts == [transactionsText |-> TRUE, symbolsText |-> TRUE, quotesText |-> TRUE]

(* the rows are what parseCSV gives for the texts; no row is ever read from
   the texts of a call in which one of them is empty *)
Init ==
  /\ texts \in TextStates
  /\ log = <<>>
  /\ IF MissingText(texts)
     THEN transactions = <<>> /\ quotes = <<>>
     ELSE transactions \in BoundedSeq(TxnPool, MaxTxns) /\ quotes \in QuoteLists
  /\ selectedAccount \in {AllAccounts, AcctA}
  /\ pc = "called"
  /\ latestQuotes = EmptyMap
  /\ uniqueAccounts = <<>>
  /\ accountsData = <<>>
  /\ portfolio = EmptyPortfolio
  /\ views = NoViews
  /\ replay = InitialReplay
  /\ replayDates = <<>>
  /\ dashboard = NoDashboard

(* lines 1250-1267 and 1483-1507: the guard on the three texts; a missing
   text is reported and thrown, the catch block reports it again and
   returns the empty structure *)
Validate ==
  /\ pc = "called"
  /\ IF MissingText(texts)
     THEN /\ log' = log \o MissingTextReports
          /\ portfolio' = EmptyPortfolio
          /\ pc' = "done"
     ELSE /\ pc' = "parsed"
          /\ UNCHANGED <<log, portfolio>>
  /\ UNCHANGED <<transactions, quotes, selectedAccount, latestQuotes,
                 uniqueAccounts, accountsData, views, replay, replayDates, texts, dashboard>>

(* lines 1299-1335: the lookup maps and the sorted account names *)
BuildIndexes ==
  /\ pc = "parsed"
  /\ latestQuotes' = BuildLatestQuotes(quotes)
  /\ uniqueAccounts' = UniqueAccounts(transactions)
  /\ pc' = "indexed"
  /\ UNCHANGED <<transactions, quotes, selectedAccount, accountsData, portfolio,
                 views, replay, replayDates, texts, log, dashboard>>

(* one callback of uniqueAccounts.map, in the order of the sorted names *)
ProcessAccount ==
  /\ pc = "indexed"
  /\ uniqueAccounts # <<>>
  /\ accountsData' = Append(accountsData,
                            AccountData(transactions, quotes, latestQuotes,
                                        Head(uniqueAccounts)))
  /\ uniqueAccounts' = Tail(uniqueAccounts)
  /\ UNCHANGED <<transactions, quotes, selectedAccount, pc, latestQuotes,
                 portfolio, views, replay, replayDates, texts, log, dashboard>>

(* lines 1423-1482: the view of the selected account and the returned data *)
Rollup ==
  /\ pc = "indexed"
  /\ uniqueAccounts = <<>>
  /\ portfolio' = PortfolioData(accountsData, selectedAccount, transactions)
  /\ pc' = "done"
  /\ UNCHANGED <<transactions, quotes, selectedAccount, latestQuotes,
                 uniqueAccounts, accountsData, views, replay, replayDates, texts, log, dashboard>>

ShowOpenDeposits ==
  /\ pc = "done"
  /\ views' = [tab |-> "OpenDeposits",
               rows |-> openDeposits(portfolio.transactions, latestQuotes, quotes,
                                     selectedAccount)]
  /\ UNCHANGED <<transactions, quotes, selectedAccount, pc, latestQuotes,
                 uniqueAccounts, accountsData, portfolio, replay, replayDates, texts, log, dashboard>>

ShowSummary ==
  /\ pc = "done"
  /\ views' = [tab |-> "Summary",
               rows |-> processOpenDeposits(
                          OpenDepositsTransactions(portfolio.transactions,
                                                   selectedAccount),
                          latestQuotes, quotes),
               measures |->
                 [zr4_6 |-> unrealizedGainZr4_6(portfolio, latestQuotes, quotes,
                                                selectedAccount),
                  zr1_5 |-> totalValueDepositsZr1_5(portfolio, latestQuotes, quotes,
                                                    selectedAccount)]]
  /\ UNCHANGED <<transactions, quotes, selectedAccount, pc, latestQuotes,
                 uniqueAccounts, accountsData, portfolio, replay, replayDates, texts, log, dashboard>>

ShowCurrentHoldings ==
  /\ pc = "done"
  /\ views' = [tab |-> "CurrentHoldings",
               rows |-> aggregatedHoldings(portfolio.currentHoldings,
                                           selectedAccount)]
  /\ UNCHANGED <<transactions, quotes, selectedAccount, pc, latestQuotes,
                 uniqueAccounts, accountsData, portfolio, replay, replayDates, texts, log, dashboard>>

(* the Measures tab: useMemo over data and selectedAccount *)
ShowMeasures ==
  /\ pc = "done"
  /\ views' = [tab |-> "Measures",
               rows |-> <<>>,
               measures |-> Measures(portfolio, latestQuotes, quotes, selectedAccount)]
  /\ UNCHANGED <<transactions, quotes, selectedAccount, pc, latestQuotes,
                 uniqueAccounts, accountsData, portfolio, replay, replayDates,
                 texts, log, dashboard>>

Next ==
  \/ Validate
  \/ BuildIndexes
  \/ ProcessAccount
  \/ Rollup
  \/ ShowOpenDeposits
  \/ ShowSummary
  \/ ShowCurrentHoldings
  \/ ShowMeasures

Spec == Init /\ [][Next]_vars

----------------------------------------------------------------------------
(* The replay of one account, one date per step (processTimeSeriesData) *)

(* Rows of one account: a purchase, its full liquidation, a time deposit,
   cash paid in and out, a later purchase and a partial sale, a realized
   gain on a row without a Date, a liquidation on the day of the purchase. *)
SeriesTxnPool ==
  { Txn(SymX, AcctA, 0, "Dividend", <<>>, <<>>, <<7>>, <<7>>, <<>>, <<>>),
    Txn(SymX, AcctA, 1, "Open Items", <<2>>, <<2>>, <<0>>, <<-2>>, <<1>>, <<2>>),
    Txn(SymX, AcctA, 2, "Open Items", <<-2>>, <<-2>>, <<1>>, <<3>>, <<>>, <<0>>),
    Txn(SymX, AcctA, 1, "Open Items", <<-2>>, <<-2>>, <<1>>, <<3>>, <<>>, <<0>>),
    Txn(SymZ, AcctA, 1, "Time Deposit", <<2>>, <<1>>, <<0>>, <<-1>>, <<1>>, <<1>>),
    Txn(SymCash, AcctA, 1, "Cash", <<>>, <<>>, <<>>, <<5>>, <<>>, <<>>),
    Txn(SymCash, AcctA, 2, "Cash", <<>>, <<>>, <<>>, <<-5>>, <<>>, <<>>),
    Txn(SymX, AcctA, 3, "Open Items", <<3>>, <<6>>, <<0>>, <<-6>>, <<2>>, <<6>>),
    Txn(SymY, AcctA, 2, "Open Items", <<2>>, <<4>>, <<0>>, <<-4>>, <<2>>, <<4>>) }

(* Quote extracts: none; full coverage; dates that quote only the index or
   only some of the held symbols; a close of 0. *)
SeriesQuoteLists ==
  { <<>>,
    <<Quote(SymX, 1, 2)>>,
    <<Quote(SymX, 1, 2), Quote(SymX, 2, 3), Quote(SymX, 3, 1)>>,
    <<Quote(SymX, 1, 2), Quote(SymEgx30, 2, 10), Quote(SymEgx30, 3, 11)>>,
    <<Quote(SymX, 1, 2), Quote(SymZ, 1, 3), Quote(SymEgx30, 2, 10),
      Quote(SymEgx30, 3, 11)>>,
    <<Quote(SymX, 2, 3), Quote(SymY, 2, 0), Quote(SymZ, 4, 1)>>,
    <<Quote(SymY, 2, 5), Quote(SymX, 4, 1)>> }

InitSeries ==
  /\ transactions \in BoundedSeq(SeriesTxnPool, MaxSeriesTxns)
  /\ quotes \in SeriesQuoteLists
  /\ selectedAccount = AcctA
  /\ pc = "replay"
  /\ latestQuotes = BuildLatestQuotes(quotes)
  /\ uniqueAccounts = <<>>
  /\ accountsData = <<>>
  /\ portfolio = EmptyPortfolio
  /\ views = NoViews
  /\ replay = InitialReplay
  /\ replayDates = SortedDates(SeriesTransactions(transactions, selectedAccount), quotes)
  /\ texts = AllTexts
  /\ log = <<>>
  /\ dashboard = NoDashboard

(* one iteration of sortedDates.forEach (lines 1819-1995) *)
ReplayNextDate ==
  /\ pc = "replay"
  /\ replayDates # <<>>
  /\ replay' = ReplayDate(replay, Head(replayDates),
                          SeriesTransactions(transactions, selectedAccount),
                          quotes, latestQuotes, selectedAccount)
  /\ replayDates' = Tail(replayDates)
  /\ UNCHANGED <<transactions, quotes, selectedAccount, pc, latestQuotes,
                 uniqueAccounts, accountsData, portfolio, views, texts, log, dashboard>>

(* return timeSeriesData *)
ReplayReturn ==
  /\ pc = "replay"
  /\ replayDates = <<>>
  /\ pc' = "replayed"
  /\ UNCHANGED <<transactions, quotes, selectedAccount, latestQuotes,
                 uniqueAccounts, accountsData, portfolio, views, replay,
                 replayDates, texts, log, dashboard>>

NextSeries ==
  \/ ReplayNextDate
  \/ ReplayReturn

SpecSeries == InitSeries /\ [][NextSeries]_vars

----------------------------------------------------------------------------
(* The dashboard: the upload of the three files, then export and import *)

InitDashboard ==
  /\ texts \in TextStates
  /\ log = <<>>
  /\ IF MissingText(texts)
     THEN transactions = <<>> /\ quotes = <<>>
     ELSE transactions \in BoundedSeq(TxnPool, MaxTxns) /\ quotes \in QuoteLists
  /\ selectedAccount \in {AllAccounts, AcctA}
  /\ pc = "dashboard"
  /\ latestQuotes = EmptyMap
  /\ uniqueAccounts = <<>>
  /\ accountsData = <<>>
  /\ portfolio = EmptyPortfolio
  /\ views = NoViews
  /\ replay = InitialReplay
  /\ replayDates = <<>>
  /\ dashboard = NoDashboard

(* processData (part_006, lines 400-495): the texts of the three files are
   stored as rawData, processPortfolioData runs on them for the selected
   account, and its result, extended and with its summaryMetrics
   recomputed, is handed to setPortfolioData *)
processData ==
  /\ pc = "dashboard"
  /\ dashboard.origin = "none"
  /\ \E lq \in {BuildLatestQuotes(quotes)} :
     \E accounts \in {processAccounts(transactions, quotes, lq)} :
     \E processedData \in
          {IF MissingText(texts) THEN EmptyPortfolio
           ELSE PortfolioData(accounts, selectedAccount, transactions)} :
       /\ dashboard' =
            [dashboard EXCEPT
               !.rawData = texts,
               !.portfolioData = <<ExtendedData(processedData, selectedAccount)>>,
               !.origin = "upload"]
       /\ portfolio' = processedData
       /\ latestQuotes' = IF MissingText(texts) THEN latestQuotes ELSE lq
       /\ accountsData' = IF MissingText(texts) THEN accountsData ELSE accounts
  /\ log' = IF MissingText(texts) THEN log \o MissingTextReports ELSE log
  /\ UNCHANGED <<transactions, quotes, selectedAccount, pc, uniqueAccounts,
                 views, replay, replayDates, texts>>

(* handleExport followed by handleImport of the exported file (part_000,
   lines 331-450): the envelope holds the dashboard's rawData; an envelope
   with an empty text is refused, otherwise processPortfolioData runs again
   on the texts (the same rows, indexes and per-account entries, computed
   anew) for "all" and its result is handed to setPortfolioData *)
handleImport ==
  /\ pc = "dashboard"
  /\ dashboard.portfolioData # <<>>
  /\ IF MissingText(dashboard.rawData)
     THEN dashboard' = [dashboard EXCEPT !.toast = "Import Failed"]
     ELSE \E lq \in {BuildLatestQuotes(quotes)} :
          \E accounts \in {processAccounts(transactions, quotes, lq)} :
            dashboard' =
              [dashboard EXCEPT
                 !.portfolioData =
                   <<PortfolioData(accounts, AllAccounts, transactions)>>,
                 !.origin = "import",
                 !.toast = "Data Imported Successfully"]
  /\ UNCHANGED <<transactions, quotes, selectedAccount, pc, latestQuotes,
                 uniqueAccounts, accountsData, portfolio, views, replay,
                 replayDates, texts, log>>

NextDashboard ==
  \/ processData
  \/ handleImport

SpecDashboard == InitDashboard /\ [][NextDashboard]_vars

----------------------------------------------------------------------------
(* What the claims are stated against: the (Symbol, Account) groups of a
   transaction list, formed by comparing the two fields themselves, in the
   order of each group's first row. *)

SamePair(t, u) == t.Symbol = u.Symbol /\ t.Account = u.Account

FirstRows(txns) ==
  {i \in 1..Len(txns) : \A j \in 1..(i - 1) : ~SamePair(txns[j], txns[i])}

RECURSIVE Ascending(_)
Ascending(S) ==
  IF S = {} THEN <<>>
  ELSE LET m == CHOOSE x \in S : \A y \in S : x <= y
       IN <<m>> \o Ascending(S \ {m})

PairGroups(txns) ==
  LET firsts == Ascending(FirstRows(txns))
  IN [k \in 1..Len(firsts) |->
        LET Member(t) == SamePair(t, txns[firsts[k]]) IN FilterSeq(txns, Member)]

NetQuantity(group) == SumOver(group, QtyOf)

CostChangeSum(group) == SumOver(group, CostOf)

RealizedSum(group) == SumOver(group, RealizedOf)

OpenItemRows(txns) ==
  LET P(t) == t.StatusTr = "Open Items" IN FilterSeq(txns, P)

ClosedTags ==
  {"YTD Clear", "PYD Clear", "Cleared", "Cleared-RE", "Clered -RE", "Time Deposit"}

ClosedRows(txns) ==
  LET P(t) == t.StatusTr \in ClosedTags IN FilterSeq(txns, P)

(* the groups a currentHoldings list is expected to show *)
HeldGroups(txns) ==
  LET Held(g) == Abs(NetQuantity(g)) > QTY_EPSILON
  IN FilterSeq(PairGroups(OpenItemRows(txns)), Held)

ClosedGroups(txns) == PairGroups(ClosedRows(txns))

RowsOfAccount(entry) == AccountTransactions(transactions, entry.name)

AccountEntries == {accountsData[i] : i \in 1..Len(accountsData)}

(* a holdings list and a list of groups agree, position by position, on P *)
Aligned(holdings, groups, P(_, _)) ==
  /\ Len(holdings) = Len(groups)
  /\ \A i \in 1..Len(holdings) : P(holdings[i], groups[i])

BookCost(h, g) ==
  /\ h.Quantity = NetQuantity(g)
  /\ h.Cost = CostChangeSum(g) + RealizedSum(g)
  /\ h.TotalCost = CostChangeSum(g)
  /\ (h.Cost = h.TotalCost => RealizedSum(g) = 0)

(* C1: every Holding of processHoldings, current or closed, of any account,
   has Cost = sum of 'Cost change' + sum of Realized3 over its group's
   transactions and TotalCost = sum of 'Cost change' alone; Cost equals the
   raw cost sum only when the realized sum is 0.  The lists of the returned
   PortfolioData hold only holdings of the accounts. *)
C1_CostIsOpenCost ==
  /\ \A e \in AccountEntries :
       /\ Aligned(e.currentHoldings, HeldGroups(RowsOfAccount(e)), BookCost)
       /\ Aligned(e.closedPositions, ClosedGroups(RowsOfAccount(e)), BookCost)
  /\ pc = "done" =>
       /\ \A h \in Range(portfolio.currentHoldings) :
            \E e \in AccountEntries : h \in Range(e.currentHoldings)
       /\ \A h \in Range(portfolio.closedPositions) :
            \E e \in AccountEntries : h \in Range(e.closedPositions)

(* a current and a closed holding, both with a realized return, returned *)
C1_Witness ==
  /\ pc = "done"
  /\ \E h \in Range(portfolio.currentHoldings) :
       h.RealizedGain # 0 /\ h.Cost # h.TotalCost
  /\ \E h \in Range(portfolio.closedPositions) :
       h.RealizedGain # 0 /\ h.Cost # h.TotalCost

ExampleBuy ==
  Txn(SymX, AcctA, 1, "Open Items", <<100>>, <<1000>>, <<0>>, <<-1000>>, <<10>>, <<1000>>)

ExampleSell ==
  Txn(SymX, AcctA, 2, "Open Items", <<-40>>, <<-400>>, <<50>>, <<450>>, <<11>>, <<0>>)

IsExample(e) ==
  /\ OpenItemRows(RowsOfAccount(e)) = <<ExampleBuy, ExampleSell>>
  /\ SymX \in DOMAIN latestQuotes
  /\ latestQuotes[SymX].Close = 12

CurrentValuation(h, g) ==
  /\ Abs(h.Quantity) > QTY_EPSILON
  /\ h.Quantity = NetQuantity(g)
  /\ h.Value = h.Quantity * h.Price
  /\ h.Cost = CostChangeSum(g) + RealizedSum(g)
  /\ h.UnrealizedGain = h.Value - h.Cost
  /\ h.RealizedGain = RealizedSum(g)
  /\ h.TotalReturn = h.RealizedGain + h.UnrealizedGain

(* C2: every holding of a currentHoldings list (a group of 'Open Items'
   rows with |quantity| > 1e-4) has Value = Quantity x Price, UnrealizedGain
   = Value - Cost, RealizedGain = sum of Realized3 and TotalReturn =
   RealizedGain + UnrealizedGain; the rows (+100, +1000, 0) and (-40, -400,
   50) with a latest close of 12 give 60, 650, 720, 70 and 50. *)
C2_CurrentHoldingValuation ==
  \A e \in AccountEntries :
    /\ Aligned(e.currentHoldings, HeldGroups(RowsOfAccount(e)), CurrentValuation)
    /\ IsExample(e) =>
         /\ Len(e.currentHoldings) = 1
         /\ e.currentHoldings[1].Quantity = 60
         /\ e.currentHoldings[1].Cost = 650
         /\ e.currentHoldings[1].Value = 720
         /\ e.currentHoldings[1].UnrealizedGain = 70
         /\ e.currentHoldings[1].RealizedGain = 50

(* the example's account has been processed *)
C2_Witness ==
  \E e \in AccountEntries :
    /\ IsExample(e)
    /\ Len(e.currentHoldings) = 1
    /\ e.currentHoldings[1].TotalReturn = 120

ClosedValuation(h) == h.UnrealizedGain = 0 /\ h.TotalReturn = h.RealizedGain

(* C3: every holding of any closedPositions list of the returned data has
   UnrealizedGain = 0 and TotalReturn = RealizedGain, whatever its net
   quantity and whatever quote its symbol has. *)
C3_ClosedHasNoUnrealizedGain ==
  /\ \A e \in AccountEntries :
       \A h \in Range(e.closedPositions) : ClosedValuation(h)
  /\ \A h \in Range(portfolio.closedPositions) : ClosedValuation(h)

(* a returned closed position that still has a quantity, a quoted price and
   a market value different from its cost *)
C3_Witness ==
  /\ pc = "done"
  /\ \E h \in Range(portfolio.closedPositions) :
       h.Quantity # 0 /\ h.Price > 0 /\ h.Value # h.Cost /\ h.RealizedGain # 0

Shows(holdings, g) ==
  \E h \in Range(holdings) : h.Symbol = g[1].Symbol /\ h.Account = g[1].Account

(* C4 as stated: every (symbol, account) group of an account's transactions
   with |net quantity| < 1e-4 is absent from the account's currentHoldings
   and present in its closedPositions with UnrealizedGain = 0. *)
C4_ZeroGroupsAreClosed ==
  \A e \in AccountEntries :
    \A k \in 1..Len(PairGroups(RowsOfAccount(e))) :
      LET g == PairGroups(RowsOfAccount(e))[k]
      IN Abs(NetQuantity(g)) < QTY_EPSILON =>
           /\ ~Shows(e.currentHoldings, g)
           /\ \E h \in Range(e.closedPositions) :
                /\ h.Symbol = g[1].Symbol
                /\ h.Account = g[1].Account
                /\ h.UnrealizedGain = 0

ClosedAsReported(h, g) == h.Quantity = NetQuantity(g) /\ h.UnrealizedGain = 0

HeldAsReported(h, g) ==
  h.Quantity = NetQuantity(g) /\ Abs(h.Quantity) > QTY_EPSILON

(* C4 as amended: currentHoldings holds exactly the groups of 'Open Items'
   rows whose |net quantity| exceeds 1e-4, so a group of 'Open Items' rows
   below 1e-4 is absent from it; closedPositions holds exactly the groups
   of closed-tag rows, whatever their net quantity, each with
   UnrealizedGain = 0.  The lists are formed per status class: a
   zero-quantity group of 'Open Items' rows is in neither list. *)
C4_ListsFollowStatusClass ==
  \A e \in AccountEntries :
    /\ Aligned(e.currentHoldings, HeldGroups(RowsOfAccount(e)), HeldAsReported)
    /\ Aligned(e.closedPositions, ClosedGroups(RowsOfAccount(e)), ClosedAsReported)

(* an account whose only rows are 'Open Items' rows that net to zero *)
C4_Witness ==
  \E e \in AccountEntries :
    /\ Len(RowsOfAccount(e)) = 2
    /\ OpenItemRows(RowsOfAccount(e)) = RowsOfAccount(e)
    /\ Len(PairGroups(RowsOfAccount(e))) = 1
    /\ NetQuantity(RowsOfAccount(e)) = 0
    /\ e.currentHoldings = <<>>
    /\ e.closedPositions = <<>>

DefinedRatio(r, denominator) == IsFinite(r) /\ (denominator = 0 => IsZero(r))

(* C5: every ratio field of a Holding is a finite number and is 0 when its
   denominator is 0: AvgCost and the three percentages of the holdings of
   processHoldings, and AvgCost (Cost / Quantity) and UnrealizedGainPct
   (UnrealizedGain / Cost) of the per-symbol rows that the Current Holdings
   tab shows for 'all accounts'.  No field is ever NaN or Infinity. *)
C5_RatiosAreDefined ==
  /\ \A e \in AccountEntries :
       \A h \in Range(e.currentHoldings) \cup Range(e.closedPositions) :
         /\ DefinedRatio(h.AvgCost, h.Quantity)
         /\ DefinedRatio(h.UnrealizedGainPct, h.Db)
         /\ DefinedRatio(h.RealizedGainPct, h.Db)
         /\ DefinedRatio(h.TotalReturnPct, h.Db)
  /\ views.tab = "CurrentHoldings" =>
       \A h \in Range(views.rows) :
         /\ DefinedRatio(h.AvgCost, h.Quantity)
         /\ DefinedRatio(h.UnrealizedGainPct, h.Cost)

Points == replay.timeSeriesData

(* a step of the replay that removes a held symbol from the holdings maps:
   the day's transactions brought its quantity below 1e-4 *)
FullLiquidation ==
  \E s \in DOMAIN replay.holdings \cup DOMAIN replay.timeDepositHoldings :
    s \notin DOMAIN replay'.holdings \cup DOMAIN replay'.timeDepositHoldings

EmitsPoint == Len(replay'.timeSeriesData) = Len(Points) + 1

(* C6: in the series of processTimeSeriesData, for consecutive points at
   T-1 and T: if the point at T-1 has totalValue > 0 and the transactions
   dated T liquidate no holding in full, the point at T has totalValue # 0. *)
C6_TotalValueDoesNotRegress ==
  [][(/\ EmitsPoint
      /\ Points # <<>>
      /\ Points[Len(Points)].totalValue > 0
      /\ ~FullLiquidation)
     => replay'.timeSeriesData[Len(Points) + 1].totalValue # 0]_vars

(* a date whose cash and equity sum to 0 after a positive total, with no
   sale among its transactions: the point repeats the last valid total *)
C6_Witness ==
  /\ Len(Points) >= 2
  /\ Points[Len(Points) - 1].totalValue > 0
  /\ Points[Len(Points)].totalValue = Points[Len(Points) - 1].totalValue
  /\ Points[Len(Points)].totalValue
       # Points[Len(Points)].equityValue + Points[Len(Points)].cashValue
  /\ \A t \in Range(replay.locals.dateTransactions) : QtyOf(t) >= 0

(* the date just replayed computed an equity value of 0 or found a holding
   without a same-day price *)
IncompleteDate ==
  replay'.locals.equityValue = 0 \/ ~replay'.locals.hasAllPrices

(* C7: on a date of processTimeSeriesData whose computed equity value is 0
   or on which an open holding has no same-day price, while an earlier date
   established a positive valid equity value, the emitted point carries
   exactly the equityValue and the unrealizedGain of the last valid
   snapshot; so over consecutive such dates without transactions the
   emitted unrealizedGain does not change. *)
C7_CarriesLastValidSnapshot ==
  [][(/\ EmitsPoint
      /\ IncompleteDate
      /\ replay.lastValidEquityValue > 0)
     => LET point == replay'.timeSeriesData[Len(Points) + 1]
        IN /\ point.equityValue = replay.lastValidEquityValue
           /\ point.unrealizedGain = replay.lastValidUnrealizedGain
           /\ (/\ replay.locals.carried
               /\ replay'.locals.dateTransactions = <<>>)
              => point.unrealizedGain = Points[Len(Points)].unrealizedGain]_vars

HasPositiveLatestQuote(symbol) ==
  symbol \in DOMAIN latestQuotes /\ latestQuotes[symbol].Close > 0

PricedByLatestQuote(h, g) ==
  HasPositiveLatestQuote(g[1].Symbol) => h.Price = latestQuotes[g[1].Symbol].Close

(* C8: whenever the symbol of a group has an entry in the latest-quote
   index (with a positive close, the only kind the chain accepts), the
   Price of the group's holding is that entry's close, whatever other
   quotes of the symbol the quotes list holds; for the holdings of
   processHoldings and for the rows of the Open Deposits tab. *)
C8_LatestQuoteTakesPrecedence ==
  /\ \A e \in AccountEntries :
       /\ Aligned(e.currentHoldings, HeldGroups(RowsOfAccount(e)), PricedByLatestQuote)
       /\ Aligned(e.closedPositions, ClosedGroups(RowsOfAccount(e)), PricedByLatestQuote)
  /\ views.tab = "OpenDeposits" =>
       \A h \in Range(views.rows) :
         HasPositiveLatestQuote(h.Symbol) => h.Price = latestQuotes[h.Symbol].Close

DepositGroups == PairGroups(OpenDepositsTransactions(transactions, selectedAccount))

(* the price the rest of the chain gives: the close of a positive quote of
   the symbol with the greatest date, else the first row's net price when
   that is not 0, else 1.0 *)
PricedPastLatestQuote(h) ==
  LET rows == PositiveQuoteRows(quotes, h.Symbol)
  IN IF rows # {}
     THEN \E i \in rows : /\ \A j \in rows : quotes[j].Date <= quotes[i].Date
                          /\ h.Price = quotes[i].Close
     ELSE \E k \in 1..Len(DepositGroups) :
            /\ DepositGroups[k][1].Symbol = h.Symbol
            /\ DepositGroups[k][1].Account = h.Account
            /\ h.Price = (IF Num(DepositGroups[k][1].NetPrice) # 0
                          THEN Num(DepositGroups[k][1].NetPrice)
                          ELSE LAST_RESORT_PRICE)

(* C9: a latest-quote entry is accepted only if its close is positive: for
   every open-deposit row of the Open Deposits tab and of the Summary
   valuation whose symbol has a latest-quote entry with a close of 0 or
   less, the Price is the one the rest of the chain gives (quotes list by
   greatest date, then net price, then 1.0), never that close. *)
C9_OnlyPositiveClosesAccepted ==
  views.tab \in {"OpenDeposits", "Summary"} =>
    \A h \in Range(views.rows) :
      (h.Symbol \in DOMAIN latestQuotes /\ latestQuotes[h.Symbol].Close <= 0)
        => h.Price > 0 /\ PricedPastLatestQuote(h)

NetPrices(g) == {Num(g[i].NetPrice) : i \in 1..Len(g)} \ {0}

(* a holding of a group without any positive quote of its symbol is priced
   at the group's net price, or at 1.0 when no net price is recorded *)
PricedOnMiss(h, g) ==
  /\ h.Price # 0
  /\ PositiveQuoteRows(quotes, g[1].Symbol) = {} =>
       IF NetPrices(g) # {} THEN h.Price \in NetPrices(g)
       ELSE h.Price = LAST_RESORT_PRICE

(* C10: a lookup miss never yields a price of 0: every Holding of
   processHoldings (current or closed) and every row of the Open Deposits
   tab has Price # 0, and when its symbol has no usable quote the Price is
   the group's recorded net price if that is not 0 and 1.0 otherwise. *)
C10_MissNeverPricesZero ==
  /\ \A e \in AccountEntries :
       /\ Aligned(e.currentHoldings, HeldGroups(RowsOfAccount(e)), PricedOnMiss)
       /\ Aligned(e.closedPositions, ClosedGroups(RowsOfAccount(e)), PricedOnMiss)
  /\ views.tab = "OpenDeposits" =>
       \A h \in Range(views.rows) :
         \E k \in 1..Len(DepositGroups) :
           /\ DepositGroups[k][1].Symbol = h.Symbol
           /\ DepositGroups[k][1].Account = h.Account
           /\ PricedOnMiss(h, DepositGroups[k])

QuotesOf(symbol) == {i \in 1..Len(quotes) : quotes[i].Symbol = symbol}

LatestDated(symbol) ==
  {i \in QuotesOf(symbol) : \A j \in QuotesOf(symbol) : quotes[j].Date <= quotes[i].Date}

Indexed == pc \in {"indexed", "done"}

(* C11 as stated: the latest-quote index maps each symbol to the quote with
   the maximum date among the symbol's quotes, and when several quotes of
   the symbol share that date it retains the one seen last in input order. *)
C11_TiesKeepLastSeen ==
  Indexed =>
    /\ DOMAIN latestQuotes = {quotes[i].Symbol : i \in 1..Len(quotes)}
    /\ \A s \in DOMAIN latestQuotes :
         \E i \in LatestDated(s) :
           /\ \A j \in LatestDated(s) : j <= i
           /\ latestQuotes[s] = quotes[i]

(* C11 as amended: the latest-quote index maps each symbol to the quote
   with the maximum date among the symbol's quotes (a blank date counting
   as the earliest), and when several quotes of the symbol share that date
   it retains the one seen first in input order: a later quote replaces
   the retained one only when its date is strictly greater. *)
C11_TiesKeepFirstSeen ==
  Indexed =>
    /\ DOMAIN latestQuotes = {quotes[i].Symbol : i \in 1..Len(quotes)}
    /\ \A s \in DOMAIN latestQuotes :
         \E i \in LatestDated(s) :
           /\ \A j \in LatestDated(s) : i <= j
           /\ latestQuotes[s] = quotes[i]

(* two quotes of one symbol share its latest date and differ in close *)
C11_Witness ==
  /\ Indexed
  /\ \E s \in DOMAIN latestQuotes :
       \E i, j \in LatestDated(s) :
         i < j /\ quotes[i].Close # quotes[j].Close /\ latestQuotes[s] = quotes[i]

OtherRows(txns) ==
  LET P(t) == t.StatusTr # "Open Items" /\ t.StatusTr \notin ClosedTags
  IN FilterSeq(txns, P)

GroupTotals(h, g) ==
  /\ h.Quantity = NetQuantity(g)
  /\ h.TotalCost = CostChangeSum(g)
  /\ h.RealizedGain = RealizedSum(g)

(* C12: classification depends on the status tag alone and routes a row to
   at most one list: the holdings of currentHoldings total exactly the rows
   tagged 'Open Items', those of closedPositions exactly the rows tagged
   'YTD Clear', 'PYD Clear', 'Cleared', 'Cleared-RE', 'Clered -RE' or
   'Time Deposit', group by group; a row with any other tag adds to no
   quantity, cost or realized total of either list, and the account is
   processed all the same. *)
C12_TagAloneRoutesRows ==
  /\ \A e \in AccountEntries :
       /\ Aligned(e.currentHoldings, HeldGroups(RowsOfAccount(e)), GroupTotals)
       /\ Aligned(e.closedPositions, ClosedGroups(RowsOfAccount(e)), GroupTotals)
  /\ pc = "done" => Len(accountsData) = Len(UniqueAccounts(transactions))

(* an account with an 'Open Items' row and a row of an unrecognised tag of
   the same symbol, the latter with a quantity, a cost and a realized
   return of its own, and the symbol's holding listed *)
C12_Witness ==
  \E e \in AccountEntries :
    /\ Len(e.currentHoldings) = 1
    /\ e.closedPositions = <<>>
    /\ \E t \in Range(OtherRows(RowsOfAccount(e))) :
         /\ t.Symbol = e.currentHoldings[1].Symbol
         /\ QtyOf(t) # 0 /\ CostOf(t) # 0 /\ RealizedOf(t) # 0

ReinvestedTags == {"Cleared-RE", "Clered -RE"}

NormalisedStatus(h, g) ==
  (\A i \in 1..Len(g) : g[i].StatusTr \in ReinvestedTags) => h.Status = "Cleared"

(* C13: every holding of closedPositions whose group's transactions carry
   the status tag 'Cleared-RE' or 'Clered -RE' has Status = 'Cleared'. *)
C13_ReinvestedShownAsCleared ==
  \A e \in AccountEntries :
    Aligned(e.closedPositions, ClosedGroups(RowsOfAccount(e)), NormalisedStatus)

(* The series handed to mergeTimeSeriesData and the series it returned *)
Merging == pc = "done" /\ selectedAccount = AllAccounts

DatesOf(series) == {series[k].date : k \in 1..Len(series)}

AccountsOn(date) ==
  {i \in 1..Len(accountsData) : date \in DatesOf(accountsData[i].timeSeriesData)}

PointOn(i, date) ==
  LET series == accountsData[i].timeSeriesData
  IN series[CHOOSE k \in 1..Len(series) : series[k].date = date]

SumOn(date, F(_)) ==
  LET RECURSIVE go(_)
      go(S) == IF S = {} THEN 0
               ELSE LET i == CHOOSE x \in S : TRUE
                    IN F(PointOn(i, date)) + go(S \ {i})
  IN go(AccountsOn(date))

StrictlyAscending(series) ==
  \A k \in 1..(Len(series) - 1) : series[k].date < series[k + 1].date

MergedSums(p) ==
  LET Cash(q) == q.cashValue
      Equity(q) == q.equityValue
      Total(q) == q.totalValue
      Realized(q) == q.realizedGain
      Unrealized(q) == q.unrealizedGain
  IN /\ p.cashValue = SumOn(p.date, Cash)
     /\ p.equityValue = SumOn(p.date, Equity)
     /\ p.totalValue = SumOn(p.date, Total)
     /\ p.realizedGain = SumOn(p.date, Realized)
     /\ p.unrealizedGain = SumOn(p.date, Unrealized)
     /\ DOMAIN p.accountValues = {accountsData[i].name : i \in AccountsOn(p.date)}
     /\ \A i \in AccountsOn(p.date) :
          p.accountValues[accountsData[i].name] = PointOn(i, p.date).totalValue

(* C14: mergeTimeSeriesData returns one point per date of the union of the
   accounts' series dates, in ascending order; each point's cashValue,
   equityValue, totalValue, realizedGain and unrealizedGain are the sums
   over the accounts having a point on that date, and accountValues maps
   each of those accounts' names to the account's own totalValue. *)
C14_MergeSumsPerDate ==
  Merging =>
    /\ StrictlyAscending(portfolio.timeSeriesData)
    /\ DatesOf(portfolio.timeSeriesData)
         = UNION {DatesOf(accountsData[i].timeSeriesData) : i \in 1..Len(accountsData)}
    /\ \A p \in Range(portfolio.timeSeriesData) : MergedSums(p)

(* two accounts each report totalValue 100 on one date: the merged point
   has totalValue 200 and maps both names to 100 *)
C14_Witness ==
  /\ Merging
  /\ \E p \in Range(portfolio.timeSeriesData) :
       /\ p.totalValue = 200
       /\ DOMAIN p.accountValues = {AcctA, AcctB}
       /\ p.accountValues[AcctA] = 100
       /\ p.accountValues[AcctB] = 100
       /\ AccountsOn(p.date) = {1, 2}

MergedFlags(p) ==
  LET points == {PointOn(i, p.date) : i \in AccountsOn(p.date)}
  IN /\ p.hasQuotes = "true" <=> \E q \in points : q.hasQuotes = "true"
     /\ p.egx30 # 0 <=> \E q \in points : q.egx30 # 0
     /\ p.egx30 # 0 => \E q \in points : q.egx30 = p.egx30

(* C15: a merged point's hasQuotes is true iff the point of at least one
   account on that date has hasQuotes true, and its egx30 is non-zero iff
   at least one account's point on that date has a non-zero egx30, in
   which case it equals one of those values. *)
C15_MergeFlagsAndBenchmark ==
  Merging => \A p \in Range(portfolio.timeSeriesData) : MergedFlags(p)

(* two accounts merged over a quoted date with a benchmark value and over a
   date without it *)
C15_Witness ==
  /\ Merging
  /\ \E p \in Range(portfolio.timeSeriesData) :
       AccountsOn(p.date) = {1, 2} /\ p.hasQuotes = "true" /\ p.egx30 # 0
  /\ \E p \in Range(portfolio.timeSeriesData) :
       AccountsOn(p.date) = {1, 2} /\ p.egx30 = 0

AnyTextEmpty ==
  \E f \in {"transactionsText", "symbolsText", "quotesText"} : ~texts[f]

(* C16: when any of the three texts handed to processPortfolioData is
   empty the run aborts before parsing: the log callback receives an error
   message, the call returns (the promise resolves) and the result is the
   empty structure: accounts, currentHoldings, closedPositions,
   timeSeriesData and transactions empty and the five summary metrics 0. *)
C16_EmptyTextGivesEmptyShell ==
  (AnyTextEmpty /\ pc # "called") =>
    /\ pc = "done"
    /\ \E i \in 1..Len(log) : log[i] = "Error: Missing required CSV data"
    /\ latestQuotes = EmptyMap /\ accountsData = <<>>
    /\ portfolio.accounts = <<>>
    /\ portfolio.currentHoldings = <<>>
    /\ portfolio.closedPositions = <<>>
    /\ portfolio.timeSeriesData = <<>>
    /\ portfolio.transactions = <<>>
    /\ \A f \in DOMAIN portfolio.summaryMetrics : portfolio.summaryMetrics[f] = 0
    /\ DOMAIN portfolio.summaryMetrics
         = {"totalValue", "cashBalance", "equityValue", "realizedGain", "unrealizedGain"}

(* a call whose quotes text alone is empty has returned *)
C16_Witness ==
  /\ texts = [transactionsText |-> TRUE, symbolsText |-> TRUE, quotesText |-> FALSE]
  /\ pc = "done"
  /\ Len(log) > 0

(* the run in which every row of the other accounts has been removed *)
OwnRows(name) ==
  LET Own(t) == t.Account = name IN FilterSeq(transactions, Own)

(* C17: the entry of an account in accounts (currentHoldings,
   closedPositions, timeSeriesData, summaryMetrics) is determined by the
   account's own rows, the symbols and the quotes: it equals the entry of
   the run that has the account's rows only, so two runs that agree on the
   account's rows give the same entry whatever rows the other accounts have
   and in whatever order the accounts are processed. *)
C17_AccountEntryDependsOnOwnRows ==
  \A e \in AccountEntries :
    e = AccountData(OwnRows(e.name), quotes, BuildLatestQuotes(quotes), e.name)

(* two accounts with rows of their own, both processed, each with a
   holding and a series *)
C17_Witness ==
  /\ Len(accountsData) = 2
  /\ \A e \in AccountEntries :
       /\ e.currentHoldings # <<>>
       /\ e.timeSeriesData # <<>>
       /\ Len(OwnRows(e.name)) < Len(transactions)

(* the fields of the PortfolioData interface *)
PortfolioFields(shown) ==
  [accounts |-> shown[1].accounts,
   currentHoldings |-> shown[1].currentHoldings,
   closedPositions |-> shown[1].closedPositions,
   timeSeriesData |-> shown[1].timeSeriesData,
   transactions |-> shown[1].transactions,
   summaryMetrics |-> shown[1].summaryMetrics]

(* C18: importing the exported texts of a portfolio that was processed from
   the uploaded files displays a PortfolioData that is, field for field of
   the PortfolioData interface, the one the upload displayed. *)
C18_ImportRestoresUpload ==
  [][(dashboard.origin = "upload" /\ dashboard'.origin = "import")
       => PortfolioFields(dashboard'.portfolioData)
          = PortfolioFields(dashboard.portfolioData)]_vars

(* the rows of the replayed account and the dates that occur in them or in
   a quote; a row without a Date has no date *)
ReplayedRows ==
  LET Mine(t) == t.Account = selectedAccount IN FilterSeq(transactions, Mine)

AllDates ==
  ({ReplayedRows[i].Date : i \in 1..Len(ReplayedRows)}
     \cup {quotes[i].Date : i \in 1..Len(quotes)}) \ {0}

PointDates == {Points[i].date : i \in 1..Len(Points)}

RowsOn(date) ==
  LET On(t) == t.Date = date IN FilterSeq(ReplayedRows, On)

(* C19: the replay emits exactly one point for each distinct date of the
   account's transactions and of the quotes, in strictly ascending date
   order; the step of a date leaves the earlier points as they are and
   values its own point after that date's transactions have been applied. *)
C19_OnePointPerDateInOrder ==
  /\ [](/\ \A i, j \in 1..Len(Points) : i < j => Points[i].date < Points[j].date
        /\ PointDates \subseteq AllDates
        /\ \A d \in AllDates \ PointDates :
             \A i \in 1..Len(Points) : Points[i].date < d
        /\ pc = "replayed" => PointDates = AllDates)
  /\ [][/\ Len(replay'.timeSeriesData) \in {Len(Points), Len(Points) + 1}
        /\ SubSeq(replay'.timeSeriesData, 1, Len(Points)) = Points
        /\ EmitsPoint =>
             LET point == replay'.timeSeriesData[Len(Points) + 1]
             IN point.cashValue
                  = replay.cashBalance + SumOver(RowsOn(point.date), CashOf)]_vars

(* a finished replay of three dates, one of them a quote's date without a
   transaction and one of them the date of two transactions *)
C19_Witness ==
  /\ pc = "replayed"
  /\ Len(Points) >= 3
  /\ \E d \in PointDates : Len(RowsOn(d)) = 0
  /\ \E d \in PointDates : Len(RowsOn(d)) = 2 /\ SumOver(RowsOn(d), CashOf) # 0

(* the account's rows dated on or before a date *)
RowsUpTo(date) ==
  LET Dated(t) == t.Date # 0 /\ t.Date <= date IN FilterSeq(ReplayedRows, Dated)

(* C20: every emitted point carries, as cashValue and realizedGain, the
   sums of Cash Impact and of Realized3 over all the account's transactions
   dated on or before the point's date, whatever their symbol or status
   tag. *)
C20_RunningCashAndRealizedGain ==
  \A i \in 1..Len(Points) :
    /\ Points[i].cashValue = SumOver(RowsUpTo(Points[i].date), CashOf)
    /\ Points[i].realizedGain = SumOver(RowsUpTo(Points[i].date), RealizedOf)

(* a point that follows a cash row of the pseudo-symbol Cash and a row
   whose realized gain is not 0 *)
C20_Witness ==
  \E i \in 1..Len(Points) :
    /\ \E k \in 1..Len(RowsUpTo(Points[i].date)) :
         /\ RowsUpTo(Points[i].date)[k].Symbol = SymCash
         /\ CashOf(RowsUpTo(Points[i].date)[k]) # 0
    /\ Points[i].cashValue # 0
    /\ Points[i].realizedGain # 0

(* the replay state after the first k transactions of a date have been
   applied to the state st the date started from *)
AfterRows(st, rows, k) == ApplyTransactions(st, SubSeq(rows, 1, k), 1)

NoCollapsedEntry(m) == \A s \in DOMAIN m : Abs(m[s].quantity) >= QTY_EPSILON

(* C21: after each transaction of a date is applied, neither the regular
   map nor the time-deposit map of the replay holds an entry whose absolute
   quantity is below 1e-4; a "Time Deposit" row changes only the
   time-deposit map, any other row of a security only the regular map, and
   a row of a pseudo-symbol neither. *)
C21_MapsArePrunedAndSeparate ==
  [][LET rows == replay'.locals.dateTransactions
     IN EmitsPoint =>
          \A k \in 1..Len(rows) :
            LET before == AfterRows(replay, rows, k - 1)
                after == AfterRows(replay, rows, k)
            IN /\ NoCollapsedEntry(after.holdings)
               /\ NoCollapsedEntry(after.timeDepositHoldings)
               /\ (IsSecurity(rows[k].Symbol) /\ rows[k].StatusTr = "Time Deposit")
                    => after.holdings = before.holdings
               /\ (IsSecurity(rows[k].Symbol) /\ rows[k].StatusTr # "Time Deposit")
                    => after.timeDepositHoldings = before.timeDepositHoldings
               /\ ~IsSecurity(rows[k].Symbol)
                    => /\ after.holdings = before.holdings
                       /\ after.timeDepositHoldings = before.timeDepositHoldings]_vars

(* X was bought and then sold in full, so its entry has been deleted, while
   the time deposit Z is still held *)
C21_Witness ==
  /\ \E i, j \in 1..Len(ReplayedRows) :
       /\ ReplayedRows[i].Symbol = SymX /\ QtyOf(ReplayedRows[i]) > 0
       /\ ReplayedRows[j].Symbol = SymX /\ QtyOf(ReplayedRows[j]) < 0
       /\ \E p \in 1..Len(Points) : Points[p].date >= ReplayedRows[j].Date
       /\ ReplayedRows[i].Date # 0
  /\ SymX \notin DOMAIN replay.holdings
  /\ SymZ \in DOMAIN replay.timeDepositHoldings
  /\ SymZ \notin DOMAIN replay.holdings

(* the positive closes quoted for a symbol on a date *)
SameDayCloses(symbol, date) ==
  {quotes[i].Close : i \in {j \in 1..Len(quotes) :
      quotes[j].Symbol = symbol /\ quotes[j].Date = date /\ quotes[j].Close > 0}}

(* the entries of a map of the replay that the date's valuation priced
   without a same-day quote: from the last known price or the latest quote *)
FallbackPriced(m, date) ==
  {s \in DOMAIN m : SameDayCloses(s, date) = {} /\ m[s].lastKnownPrice > 0}

(* C22: on every date each holding still open, regular or time deposit, is
   priced at its positive same-day quote when there is one; every holding
   priced from its last known price or from the latest quote marks the
   date as not having all prices; and the date's point is emitted all the
   same. *)
C22_FallbackPricesAreFlagged ==
  [][LET date == replay'.locals.date
     IN pc = "replay" /\ replayDates # <<>> =>
          /\ EmitsPoint
          /\ \A s \in DOMAIN replay'.holdings :
               SameDayCloses(s, date) # {}
                 => replay'.holdings[s].lastKnownPrice \in SameDayCloses(s, date)
          /\ \A s \in DOMAIN replay'.timeDepositHoldings :
               SameDayCloses(s, date) # {}
                 => replay'.timeDepositHoldings[s].lastKnownPrice
                      \in SameDayCloses(s, date)
          /\ (FallbackPriced(replay'.holdings, date)
                \cup FallbackPriced(replay'.timeDepositHoldings, date)) # {}
               => ~replay'.locals.hasAllPrices]_vars

(* the open-deposit (symbol, account) groups the tabs work on, those whose
   absolute quantity exceeds 1e-4, and what the Open Deposits tab shows *)
OpenDepositGroups ==
  LET groups == GroupBy(OpenDepositsTransactions(portfolio.transactions,
                                                 selectedAccount), DepositsKey)
  IN {groups[i] : i \in {j \in 1..Len(groups) :
        Abs(SumOver(groups[j].txns, QtyOf)) > QTY_EPSILON}}

OpenDepositsTab ==
  openDeposits(portfolio.transactions, latestQuotes, quotes, selectedAccount)

OpenDepositsTabValue == LET Value(h) == h.Value IN SumOver(OpenDepositsTab, Value)

OpenDepositsTabGain ==
  LET Unrealized(h) == h.UnrealizedGain IN SumOver(OpenDepositsTab, Unrealized)

(* C23: the Summary tab (zr1.5, Zr4.6) and the Measures tab (1.5, 4.6)
   price every open-deposit group of more than 1e-4 units as the Open
   Deposits tab does, so their deposit value and unrealized gain are the
   sums of the Value and UnrealizedGain the Open Deposits tab shows. *)
C23_DepositPricesAgreeAcrossTabs ==
  /\ views.tab \in {"Summary", "Measures"} =>
       \A g \in OpenDepositGroups :
         MeasureDepositsPrice(latestQuotes, quotes, g)
           = OpenDepositsPrice(latestQuotes, quotes, g)
  /\ views.tab = "Summary" =>
       /\ views.measures.zr4_6 = OpenDepositsTabGain
       /\ views.measures.zr1_5
            = OpenDepositsTabValue + AhlyBankCash(portfolio.accounts, selectedAccount)
  /\ views.tab = "Measures" =>
       /\ views.measures.m4_6 = OpenDepositsTabGain
       /\ views.measures.m1_5
            = OpenDepositsTabValue + AhlyBankCash(portfolio.accounts, selectedAccount)

(* C24: on the Measures tab measure 4.8 is measure 4.6 plus measure 4.7
   and measure 4.9 is measure 4.5 plus measure 4.8; for a portfolio
   without transactions all of them are 0. *)
C24_ReturnMeasuresAddUp ==
  views.tab = "Measures" =>
    /\ views.measures.m4_8 = views.measures.m4_6 + views.measures.m4_7
    /\ views.measures.m4_9 = views.measures.m4_5 + views.measures.m4_8
    /\ portfolio.transactions = <<>> =>
         /\ views.measures.m4_5 = 0 /\ views.measures.m4_6 = 0
         /\ views.measures.m4_7 = 0 /\ views.measures.m4_8 = 0
         /\ views.measures.m4_9 = 0

(* C25: every emitted point has totalValue = cashValue + equityValue, the
   points emitted through the carry-forward rules included. *)
C25_TotalIsCashPlusEquity ==
  \A i \in 1..Len(Points) :
    Points[i].totalValue = Points[i].cashValue + Points[i].equityValue

(* the replay holds no position in either map *)
Liquidated(st) == DOMAIN st.holdings = {} /\ DOMAIN st.timeDepositHoldings = {}

LastPoint(st) == st.timeSeriesData[Len(st.timeSeriesData)]

(* C26: when both maps of the replay are empty after the transactions of a
   date have been applied (and they stay empty on every later date without
   a purchase), the date's point has equityValue = 0, unrealizedGain = 0
   and totalValue = cashValue. *)
C26_LiquidatedAccountIsCashOnly ==
  [][(EmitsPoint /\ Liquidated(replay')) =>
       /\ LastPoint(replay').equityValue = 0
       /\ LastPoint(replay').unrealizedGain = 0
       /\ LastPoint(replay').totalValue = LastPoint(replay').cashValue]_vars

(* the whole of sortedDates.forEach, from a given replay state *)
RECURSIVE ReplayAll(_, _, _, _, _, _)
ReplayAll(st, dates, txns, qs, lq, account) ==
  IF dates = <<>> THEN st
  ELSE ReplayAll(ReplayDate(st, Head(dates), txns, qs, lq, account),
                 Tail(dates), txns, qs, lq, account)

(* the time series of an input, as processTimeSeriesData returns it *)
SeriesOf(txns, qs, account) ==
  LET own == SeriesTransactions(txns, account)
  IN ReplayAll(InitialReplay, SortedDates(own, qs), own, qs,
               BuildLatestQuotes(qs), account).timeSeriesData

(* the reorderings of txns that only move rows past rows of the same date *)
SameDayPermutations(txns) ==
  LET n == Len(txns)
      Bijections == {f \in [1..n -> 1..n] : \A i, j \in 1..n : f[i] = f[j] => i = j}
      KeepsDates(f) == \A i, j \in 1..n :
                         (i < j /\ txns[f[i]].Date # txns[f[j]].Date) => f[i] < f[j]
  IN {[i \in 1..n |-> txns[f[i]]] : f \in {g \in Bijections : KeepsDates(g)}}

PointValues(points) ==
  [i \in 1..Len(points) |->
     [date |-> points[i].date, cashValue |-> points[i].cashValue,
      equityValue |-> points[i].equityValue,
      unrealizedGain |-> points[i].unrealizedGain,
      realizedGain |-> points[i].realizedGain,
      totalValue |-> points[i].totalValue]]

(* C27: the returned series does not depend on the input order of the
   transactions of one date: every reordering that only exchanges rows of
   the same date gives the same cashValue, equityValue, unrealizedGain,
   realizedGain and totalValue on every point. *)
C27_SameDayOrderIsIrrelevant ==
  pc = "replayed" =>
    \A p \in SameDayPermutations(transactions) :
      PointValues(SeriesOf(p, quotes, selectedAccount)) = PointValues(Points)

NamedAfterGroup(h, g) ==
  /\ h.Symbol = g[1].Symbol
  /\ h.Account = AccountOrUnknown(g[1])
  /\ h.Quantity = NetQuantity(g)

(* C28: processHoldings groups exactly by the pair (Symbol, Account): the
   holdings of an account are, in order, one per pair of its rows, each
   carrying the Symbol and the Account of the rows of its pair and their
   net quantity, also when a name holds the character "-". *)
C28_GroupsAreSymbolAccountPairs ==
  \A e \in AccountEntries :
    /\ Aligned(e.currentHoldings, HeldGroups(RowsOfAccount(e)), NamedAfterGroup)
    /\ Aligned(e.closedPositions, ClosedGroups(RowsOfAccount(e)), NamedAfterGroup)

----------------------------------------------------------------------------
(* The dashboard's asynchronous runs: processData started by the button and
   by the selectedAccount effect, handleImportData, and the two effects *)

MaxRuns == 2

(* the extracts the files hold: rows of two accounts *)
RunInputs ==
  { [txns |-> <<Txn(SymX, AcctA, 1, "Open Items", <<100>>, <<1000>>, <<0>>, <<-1000>>, <<10>>, <<1000>>),
                Txn(SymY, AcctB, 1, "Open Items", <<1>>, <<5>>, <<0>>, <<-5>>, <<5>>, <<5>>)>>,
     qs |-> <<Quote(SymX, 1, 12)>>],
    [txns |-> <<Txn(SymX, AcctA, 1, "Open Items", <<100>>, <<1000>>, <<0>>, <<-1000>>, <<10>>, <<1000>>),
                Txn(SymY, AcctB, 1, "Open Items", <<1>>, <<5>>, <<0>>, <<-5>>, <<5>>, <<5>>),
                Txn(SymCash, AcctA, 1, "Cash", <<>>, <<>>, <<>>, <<100>>, <<>>, <<>>)>>,
     qs |-> <<Quote(SymXY, 1, 7), Quote(SymY, 1, 5)>>],
    [txns |-> <<Txn(SymX, AcctA, 1, "Open Items", <<100>>, <<1000>>, <<0>>, <<-1000>>, <<10>>, <<1000>>)>>,
     qs |-> <<Quote(SymX, 1, 12), Quote(SymEgx30, 2, 10)>>] }

(* useState: files, isProcessing, portfolioData, rawData; the processData
   calls and the import whose callbacks have not run yet *)
IdleDashboard ==
  [files |-> FALSE, isProcessing |-> FALSE,
   rawData |-> [transactionsText |-> FALSE, symbolsText |-> FALSE,
                quotesText |-> FALSE],
   portfolioData |-> <<>>, origin |-> "none", toast |-> "",
   runs |-> <<>>, importing |-> "none"]

InitRuns ==
  /\ \E input \in RunInputs : transactions = input.txns /\ quotes = input.qs
  /\ texts = AllTexts
  /\ log = <<>>
  /\ selectedAccount = AllAccounts
  /\ pc = "runs"
  /\ latestQuotes = BuildLatestQuotes(quotes)
  /\ uniqueAccounts = UniqueAccounts(transactions)
  /\ accountsData = processAccounts(transactions, quotes, latestQuotes)
  /\ portfolio = EmptyPortfolio
  /\ views = NoViews
  /\ replay = InitialReplay
  /\ replayDates = <<>>
  /\ dashboard = IdleDashboard

(* the second effect (part_006, lines 512-568): the top-level fields taken
   again from portfolioData.accounts for the newly selected account *)
AccountView(data, selected) ==
  LET accounts == data.accounts
      found == {i \in 1..Len(accounts) : accounts[i].name = selected}
      one == accounts[CHOOSE i \in found : \A j \in found : i <= j]
      all == RollUp(accounts, AllAccounts)
  IN IF selected = AllAccounts
     THEN [data EXCEPT !.currentHoldings = all.currentHoldings,
                       !.closedPositions = all.closedPositions,
                       !.timeSeriesData = all.timeSeriesData,
                       !.summaryMetrics = all.summaryMetrics]
     ELSE IF found # {}
     THEN [data EXCEPT !.currentHoldings = one.currentHoldings,
                       !.closedPositions = one.closedPositions,
                       !.timeSeriesData = one.timeSeriesData,
                       !.summaryMetrics = one.summaryMetrics]
     ELSE data

(* what a processData call that captured `account` hands to setPortfolioData *)
RunResult(account) ==
  ExtendedData(PortfolioData(accountsData, account, transactions), account)

RemoveAt(s, i) == SubSeq(s, 1, i - 1) \o SubSeq(s, i + 1, Len(s))

(* handleFileChange: the last of the three files is chosen *)
handleFileChange ==
  /\ pc = "runs"
  /\ dashboard.portfolioData = <<>>
  /\ ~dashboard.files
  /\ dashboard' = [dashboard EXCEPT !.files = TRUE]
  /\ UNCHANGED <<transactions, quotes, selectedAccount, pc, latestQuotes,
                 uniqueAccounts, accountsData, portfolio, views, replay,
                 replayDates, texts, log>>

(* the "Process Portfolio Data" button (lines 1038-1042), enabled when the
   three files are chosen and isProcessing is false: processData up to its
   first await (lines 400-432) *)
StartProcessData ==
  /\ pc = "runs"
  /\ dashboard.portfolioData = <<>>
  /\ dashboard.files /\ ~dashboard.isProcessing
  /\ Len(dashboard.runs) < MaxRuns
  /\ dashboard' = [dashboard EXCEPT
                     !.isProcessing = TRUE,
                     !.runs = Append(@, [account |-> selectedAccount])]
  /\ UNCHANGED <<transactions, quotes, selectedAccount, pc, latestQuotes,
                 uniqueAccounts, accountsData, portfolio, views, replay,
                 replayDates, texts, log>>

(* the rest of one processData call (lines 427-494), run when its three
   file reads have settled: with the texts, setRawData and setPortfolioData
   for the account the call was started with; after a read error, the
   catch block; in both cases the finally block *)
FinishProcessData ==
  /\ pc = "runs"
  /\ \E i \in 1..Len(dashboard.runs), read \in {"load", "error"} :
       dashboard' =
         IF read = "load"
         THEN [dashboard EXCEPT
                 !.rawData = texts,
                 !.portfolioData = <<RunResult(dashboard.runs[i].account)>>,
                 !.origin = "upload",
                 !.isProcessing = FALSE,
                 !.runs = RemoveAt(@, i)]
         ELSE [dashboard EXCEPT
                 !.toast = "Processing Error",
                 !.isProcessing = FALSE,
                 !.runs = RemoveAt(@, i)]
  /\ UNCHANGED <<transactions, quotes, selectedAccount, pc, latestQuotes,
                 uniqueAccounts, accountsData, portfolio, views, replay,
                 replayDates, texts, log>>

(* handleImportData up to reader.readAsText (lines 207-303); the input is
   on the first screen and is disabled while isProcessing *)
handleImportData ==
  /\ pc = "runs"
  /\ dashboard.portfolioData = <<>>
  /\ ~dashboard.isProcessing
  /\ dashboard.importing = "none"
  /\ dashboard' = [dashboard EXCEPT !.isProcessing = TRUE,
                                    !.importing = "reading"]
  /\ UNCHANGED <<transactions, quotes, selectedAccount, pc, latestQuotes,
                 uniqueAccounts, accountsData, portfolio, views, replay,
                 replayDates, texts, log>>

(* reader.onload (lines 216-300): text that is not JSON, an envelope
   without raw data, or an envelope whose texts go to processPortfolioData;
   the finally block runs before the promise settles *)
ImportOnLoad ==
  /\ pc = "runs"
  /\ dashboard.importing = "reading"
  /\ \E content \in {"not JSON", "no raw data", "envelope"} :
       dashboard' =
         IF content = "envelope"
         THEN [dashboard EXCEPT !.rawData = texts,
                                !.importing = "pipeline",
                                !.isProcessing = FALSE]
         ELSE [dashboard EXCEPT !.toast = "Import Failed",
                                !.importing = "none",
                                !.isProcessing = FALSE]
  /\ UNCHANGED <<transactions, quotes, selectedAccount, pc, latestQuotes,
                 uniqueAccounts, accountsData, portfolio, views, replay,
                 replayDates, texts, log>>

(* the read fails: the reader has an onload handler only, so no code runs *)
ImportReadError ==
  /\ pc = "runs"
  /\ dashboard.importing = "reading"
  /\ dashboard' = [dashboard EXCEPT !.importing = "lost"]
  /\ UNCHANGED <<transactions, quotes, selectedAccount, pc, latestQuotes,
                 uniqueAccounts, accountsData, portfolio, views, replay,
                 replayDates, texts, log>>

(* the .then of the import (lines 246-280) *)
ImportResolved ==
  /\ pc = "runs"
  /\ dashboard.importing = "pipeline"
  /\ dashboard' = [dashboard EXCEPT
                     !.portfolioData =
                       <<PortfolioData(accountsData, AllAccounts, transactions)>>,
                     !.origin = "import",
                     !.toast = "Data Imported Successfully",
                     !.importing = "none"]
  /\ UNCHANGED <<transactions, quotes, selectedAccount, pc, latestQuotes,
                 uniqueAccounts, accountsData, portfolio, views, replay,
                 replayDates, texts, log>>

(* the account selector (line 1090) and the two effects of selectedAccount
   (lines 498-568): processData is called again when the files are chosen,
   and the top-level fields are recomputed from portfolioData.accounts *)
SelectAccount ==
  /\ pc = "runs"
  /\ dashboard.portfolioData # <<>>
  /\ dashboard.files => Len(dashboard.runs) < MaxRuns
  /\ \E account \in ({AllAccounts} \cup Range(uniqueAccounts)) \ {selectedAccount} :
       /\ selectedAccount' = account
       /\ dashboard' =
            [dashboard EXCEPT
               !.isProcessing = IF dashboard.files THEN TRUE ELSE @,
               !.runs = IF dashboard.files
                        THEN Append(@, [account |-> account]) ELSE @,
               !.portfolioData = <<AccountView(dashboard.portfolioData[1], account)>>,
               !.origin = IF @ = "upload" THEN "upload" ELSE "effect"]
  /\ UNCHANGED <<transactions, quotes, pc, latestQuotes, uniqueAccounts,
                 accountsData, portfolio, views, replay, replayDates, texts, log>>

(* "Upload New Data" (line 1101): setPortfolioData(null) *)
UploadNewData ==
  /\ pc = "runs"
  /\ dashboard.portfolioData # <<>>
  /\ dashboard' = [dashboard EXCEPT !.portfolioData = <<>>, !.origin = "none"]
  /\ UNCHANGED <<transactions, quotes, selectedAccount, pc, latestQuotes,
                 uniqueAccounts, accountsData, portfolio, views, replay,
                 replayDates, texts, log>>

NextRuns ==
  \/ handleFileChange
  \/ StartProcessData
  \/ FinishProcessData
  \/ handleImportData
  \/ ImportOnLoad
  \/ ImportReadError
  \/ ImportResolved
  \/ SelectAccount
  \/ UploadNewData

SpecRuns == InitRuns /\ [][NextRuns]_vars

(* every started file read settles, with a load or with an error, and the
   promise of the import settles; the user's actions need not happen *)
FairSpecRuns ==
  /\ SpecRuns
  /\ WF_vars(FinishProcessData)
  /\ WF_vars(ImportOnLoad \/ ImportReadError)
  /\ WF_vars(ImportResolved)

(* C29: whenever isProcessing is true it is false again later, whatever the
   outcome of the file reads, of the parse, of the validation and of the
   pipeline run of processData and handleImportData. *)
C29_ProcessingFlagIsReleased ==
  dashboard.isProcessing ~> ~dashboard.isProcessing

(* the four fields the dashboard shows *)
ShownView(data) ==
  [currentHoldings |-> data.currentHoldings,
   closedPositions |-> data.closedPositions,
   timeSeriesData |-> data.timeSeriesData,
   summaryMetrics |-> data.summaryMetrics]

(* no processData call and no import is waiting for a callback *)
AllRunsCompleted ==
  dashboard.runs = <<>> /\ dashboard.importing \in {"none", "lost"}

(* C30: once every run has completed, none of them with a read error, the
   data that the runs and the effects of selectedAccount left in
   portfolioData show the account selected last: its view as processData
   computes it or as the second effect computes it. *)
C30_ShowsTheSelectedAccount ==
  (/\ pc = "runs"
   /\ AllRunsCompleted
   /\ dashboard.toast # "Processing Error"
   /\ dashboard.portfolioData # <<>>
   /\ dashboard.origin \in {"upload", "effect"})
  => ShownView(dashboard.portfolioData[1]) \in
       { ShownView(RunResult(selectedAccount)),
         ShownView(AccountView(dashboard.portfolioData[1], selectedAccount)) }

====
